---------------------------- MODULE Spec2Model ----------------------------
(***************************************************************************)
(* Model of the trae-agent Rust runtime: the task agent (TraeAgent), its   *)
(* completion policies, the tool executor and the step loop that drives    *)
(* them.  Text is modelled as a sequence of one-character strings, so that *)
(* lower-casing, substring search, trimming and concatenation are computed *)
(* as the code computes them.  An Option<T> is a sequence of length 0      *)
(* (None) or 1 (Some).                                                     *)
(***************************************************************************)
EXTENDS Integers, Sequences, FiniteSets, TLC

(***************************************************************************)
(* Bounds of the model.                                                    *)
(***************************************************************************)
MaxStepsBound == 3

(***************************************************************************)
(* Option and text helpers.                                                *)
(***************************************************************************)
None == <<>>

Some(x) == <<x>>

IsSome(o) == Len(o) = 1

IsNone(o) == Len(o) = 0

Unwrap(o) == o[1]

IsWhite(c) == c \in {" ", "\n", "\t", "\r"}

StartsWith(s, p) == Len(s) >= Len(p) /\ SubSeq(s, 1, Len(p)) = p

EndsWith(s, p) == Len(s) >= Len(p) /\ SubSeq(s, Len(s) - Len(p) + 1, Len(s)) = p

Contains(s, p) == \E i \in 1..(Len(s) - Len(p) + 1) : SubSeq(s, i, i + Len(p) - 1) = p

UpperLetters ==
    <<"A","B","C","D","E","F","G","H","I","J","K","L","M",
      "N","O","P","Q","R","S","T","U","V","W","X","Y","Z">>

LowerLetters ==
    <<"a","b","c","d","e","f","g","h","i","j","k","l","m",
      "n","o","p","q","r","s","t","u","v","w","x","y","z">>

LowerChar(c) ==
    IF \E k \in 1..26 : UpperLetters[k] = c
    THEN LowerLetters[CHOOSE k \in 1..26 : UpperLetters[k] = c]
    ELSE c

to_lowercase(s) == [i \in 1..Len(s) |-> LowerChar(s[i])]

\* s.trim().is_empty()
TrimIsEmpty(s) == \A i \in 1..Len(s) : IsWhite(s[i])

\* position of the first occurrence of character c in s, 0 when absent
FirstIndex(s, c) ==
    IF \E i \in 1..Len(s) : s[i] = c
    THEN CHOOSE i \in 1..Len(s) : s[i] = c /\ \A j \in 1..(i - 1) : s[j] # c
    ELSE 0

StripCR(l) == IF Len(l) > 0 /\ l[Len(l)] = "\r" THEN SubSeq(l, 1, Len(l) - 1) ELSE l

\* str::lines(): split at "\n", no empty last line, a trailing "\r" removed
RECURSIVE Lines(_)
Lines(t) ==
    IF t = <<>> THEN <<>>
    ELSE LET k == FirstIndex(t, "\n") IN
         IF k = 0 THEN <<StripCR(t)>>
         ELSE <<StripCR(SubSeq(t, 1, k - 1))>> \o Lines(SubSeq(t, k + 1, Len(t)))

\* [String]::join("\n")
RECURSIVE JoinLines(_)
JoinLines(ls) ==
    IF ls = <<>> THEN <<>>
    ELSE IF Len(ls) = 1 THEN ls[1]
    ELSE ls[1] \o <<"\n">> \o JoinLines(Tail(ls))

\* str::split_whitespace()
RECURSIVE SplitWhitespace(_)
SplitWhitespace(s) ==
    IF s = <<>> THEN <<>>
    ELSE IF IsWhite(s[1]) THEN SplitWhitespace(Tail(s))
    ELSE LET stop == IF \E i \in 1..Len(s) : IsWhite(s[i])
                     THEN CHOOSE i \in 1..Len(s) :
                              IsWhite(s[i]) /\ \A j \in 1..(i - 1) : ~IsWhite(s[j])
                     ELSE Len(s) + 1
         IN <<SubSeq(s, 1, stop - 1)>> \o SplitWhitespace(SubSeq(s, stop, Len(s)))

(***************************************************************************)
(* Text constants of the program.                                          *)
(***************************************************************************)
IndTaskCompleted ==
    <<"t","a","s","k"," ","c","o","m","p","l","e","t","e","d">>

IndTaskFinished ==
    <<"t","a","s","k"," ","f","i","n","i","s","h","e","d">>

IndDone ==
    <<"d","o","n","e">>

IndCompletedSuccessfully ==
    <<"c","o","m","p","l","e","t","e","d"," ","s","u","c","c","e","s","s","f","u","l","l","y">>

IndFinishedSuccessfully ==
    <<"f","i","n","i","s","h","e","d"," ","s","u","c","c","e","s","s","f","u","l","l","y">>

completion_indicators ==
    <<IndTaskCompleted, IndTaskFinished, IndDone,
      IndCompletedSuccessfully, IndFinishedSuccessfully>>

TaskDoneName ==
    <<"t","a","s","k","_","d","o","n","e">>

BashName ==
    <<"b","a","s","h">>

EditToolName ==
    <<"s","t","r","_","r","e","p","l","a","c","e","_","b","a","s","e","d","_","e","d","i","t","_",
      "t","o","o","l">>

JsonEditToolName ==
    <<"j","s","o","n","_","e","d","i","t","_","t","o","o","l">>

SequentialThinkingName ==
    <<"s","e","q","u","e","n","t","i","a","l","_","t","h","i","n","k","i","n","g">>

MsgPatchEmpty ==
    <<"E","R","R","O","R","!"," ","Y","o","u","r"," ","P","a","t","c","h"," ","i","s"," ","e","m",
      "p","t","y","."," ","P","l","e","a","s","e"," ","p","r","o","v","i","d","e"," ","a"," ","p",
      "a","t","c","h"," ","t","h","a","t"," ","f","i","x","e","s"," ","t","h","e"," ","p","r","o",
      "b","l","e","m",".">>

MsgGitErrPrefix ==
    <<"E","R","R","O","R","!"," ","C","o","u","l","d"," ","n","o","t"," ","v","e","r","i","f","y",
      " ","p","a","t","c","h"," ","d","u","e"," ","t","o"," ","g","i","t"," ","d","i","f","f"," ",
      "e","r","r","o","r",":"," ">>

MsgGitErrSuffix ==
    <<"."," ","P","l","e","a","s","e"," ","t","r","y"," ","t","h","e"," ","f","i","x"," ","a","g",
      "a","i","n",".">>

MsgNoProjectPath ==
    <<"E","R","R","O","R","!"," ","'","m","u","s","t","_","p","a","t","c","h","'"," ","i","s"," ",
      "t","r","u","e",","," ","b","u","t"," ","p","r","o","j","e","c","t","_","p","a","t","h"," ",
      "i","s"," ","n","o","t"," ","c","o","n","f","i","g","u","r","e","d"," ","f","o","r"," ","d",
      "i","f","f","i","n","g",".">>

SummaryPrefix ==
    <<"T","a","s","k"," ","c","o","m","p","l","e","t","e","d","."," ","S","u","m","m","a","r","y",
      ":"," ">>

MarkedDone ==
    <<"T","a","s","k"," ","m","a","r","k","e","d"," ","a","s"," ","d","o","n","e"," ","b","y"," ",
      "t","h","e"," ","a","g","e","n","t",".">>

SummaryKey ==
    <<"s","u","m","m","a","r","y">>

(***************************************************************************)
(* JSON values (serde_json::Value) and the argument texts the model of the *)
(* LLM can produce.  A value is [t, v]: t is the JSON type, v the string   *)
(* of a string value, the digits of a number, the member list of an object *)
(* (pairs <<key, value>>) or the element list of an array.                 *)
(***************************************************************************)
JNull == [t |-> "null", v |-> <<>>]

JString(s) == [t |-> "string", v |-> s]

JNumber(digits) == [t |-> "number", v |-> digits]

JObject(members) == [t |-> "object", v |-> members]

JArray(elems) == [t |-> "array", v |-> elems]

JBool(b) == [t |-> "bool", v |-> IF b THEN <<"t","r","u","e">> ELSE <<"f","a","l","s","e">>]

is_object(val) == val.t = "object"

is_null(val) == val.t = "null"

\* Value::get(key): the member of an object with that key, None otherwise
JsonGet(val, key) ==
    IF val.t = "object" /\ \E i \in 1..Len(val.v) : val.v[i][1] = key
    THEN Some(val.v[CHOOSE i \in 1..Len(val.v) : val.v[i][1] = key][2])
    ELSE None

\* Value::as_str()
as_str(val) == IF val.t = "string" THEN Some(val.v) ELSE None

TxtOk ==
    <<"o","k">>

TxtLs ==
    <<"l","s">>

CommandKey ==
    <<"c","o","m","m","a","n","d">>

ArgsSummaryOk ==
    <<"{","\"","s","u","m","m","a","r","y","\"",":","\"","o","k","\"","}">>

ArgsEmptyObject ==
    <<"{","}">>

ArgsSummaryNumber ==
    <<"{","\"","s","u","m","m","a","r","y","\"",":","5","}">>

ArgsBlank ==
    <<" ">>

ArgsNotJson ==
    <<"o","o","p","s">>

ArgsArray ==
    <<"[","1","]">>

ArgsNull ==
    <<"n","u","l","l">>

ArgsCommand ==
    <<"{","\"","c","o","m","m","a","n","d","\"",":","\"","l","s","\"","}">>

ArgsNumber ==
    <<"5">>

ArgsString ==
    <<"\"","o","k","\"">>

ArgsTrue ==
    <<"t","r","u","e">>

ArgumentTexts ==
    {ArgsSummaryOk, ArgsEmptyObject, ArgsSummaryNumber, ArgsBlank, <<>>,
     ArgsNotJson, ArgsArray, ArgsNull, ArgsCommand, ArgsNumber, ArgsString, ArgsTrue}

\* serde_json::from_str::<Value> on the argument texts above: Some(value),
\* or None for a text that is not JSON (the empty and the blank text are not)
from_str(text) ==
    CASE text = ArgsSummaryOk -> Some(JObject(<< <<SummaryKey, JString(TxtOk)>> >>))
      [] text = ArgsEmptyObject -> Some(JObject(<<>>))
      [] text = ArgsSummaryNumber -> Some(JObject(<< <<SummaryKey, JNumber(<<"5">>)>> >>))
      [] text = ArgsArray -> Some(JArray(<<JNumber(<<"1">>)>>))
      [] text = ArgsNull -> Some(JNull)
      [] text = ArgsCommand -> Some(JObject(<< <<CommandKey, JString(TxtLs)>> >>))
      [] text = ArgsNumber -> Some(JNumber(<<"5">>))
      [] text = ArgsString -> Some(JString(TxtOk))
      [] text = ArgsTrue -> Some(JBool(TRUE))
      [] OTHER -> None

(***************************************************************************)
(* git_utils: the test-file filter.                                        *)
(***************************************************************************)
DiffGitPrefix ==
    <<"d","i","f","f"," ","-","-","g","i","t"," ","a","/">>

PatTestDir ==
    <<"/","t","e","s","t","/">>

PatTestsDir ==
    <<"/","t","e","s","t","s","/">>

PatTestingDir ==
    <<"/","t","e","s","t","i","n","g","/">>

PatTestUnderscore ==
    <<"t","e","s","t","_">>

PatUnderscoreTestPy ==
    <<"_","t","e","s","t",".","p","y">>

PatUnderscoreTestsPy ==
    <<"_","t","e","s","t","s",".","p","y">>

PatSpecJs ==
    <<".","s","p","e","c",".","j","s">>

PatTestJs ==
    <<".","t","e","s","t",".","j","s">>

PatSpecTs ==
    <<".","s","p","e","c",".","t","s">>

PatTestTs ==
    <<".","t","e","s","t",".","t","s">>

PatTestRel ==
    <<"t","e","s","t","/">>

PatTestsRel ==
    <<"t","e","s","t","s","/">>

PatTestingRel ==
    <<"t","e","s","t","i","n","g","/">>

PatToxIni ==
    <<"/","t","o","x",".","i","n","i">>

PatPytestIni ==
    <<"/","p","y","t","e","s","t",".","i","n","i">>

\* str::strip_prefix("b/").unwrap_or(path)
StripPrefixB(path) ==
    IF StartsWith(path, <<"b", "/">>) THEN SubSeq(path, 3, Len(path)) ELSE path

\* Path::file_name(): the last component, None when there is none or it is ".."
RECURSIVE file_name(_)
file_name(path) ==
    IF path = <<>> THEN None
    ELSE IF path[Len(path)] = "/" THEN file_name(SubSeq(path, 1, Len(path) - 1))
    ELSE LET starts == {i \in 1..Len(path) : \A j \in i..Len(path) : path[j] # "/"}
             first == CHOOSE i \in starts : \A k \in starts : i <= k
             name == SubSeq(path, first, Len(path))
         IN IF name = <<".", ".">> THEN None ELSE Some(name)

IsTestPath(path_to_check) ==
    \/ Contains(path_to_check, PatTestDir)
    \/ Contains(path_to_check, PatTestsDir)
    \/ Contains(path_to_check, PatTestingDir)
    \/ StartsWith(path_to_check, PatTestUnderscore)
    \/ EndsWith(path_to_check, PatUnderscoreTestPy)
    \/ EndsWith(path_to_check, PatUnderscoreTestsPy)
    \/ EndsWith(path_to_check, PatSpecJs)
    \/ EndsWith(path_to_check, PatTestJs)
    \/ EndsWith(path_to_check, PatSpecTs)
    \/ EndsWith(path_to_check, PatTestTs)
    \/ Contains(path_to_check, PatTestRel)
    \/ Contains(path_to_check, PatTestsRel)
    \/ Contains(path_to_check, PatTestingRel)
    \/ (IsSome(file_name(path_to_check))
        /\ StartsWith(Unwrap(file_name(path_to_check)), PatTestUnderscore))
    \/ EndsWith(path_to_check, PatToxIni)
    \/ EndsWith(path_to_check, PatPytestIni)

\* the value of is_tests_file_chunk after the line has been looked at
ChunkFlagAfter(line, is_tests_file_chunk) ==
    IF StartsWith(line, DiffGitPrefix)
    THEN LET parts == SplitWhitespace(line) IN
         IF Len(parts) >= 4 THEN IsTestPath(StripPrefixB(parts[4])) ELSE FALSE
    ELSE is_tests_file_chunk

RECURSIVE FilterLines(_, _)
FilterLines(ls, is_tests_file_chunk) ==
    IF ls = <<>> THEN <<>>
    ELSE LET flag == ChunkFlagAfter(Head(ls), is_tests_file_chunk) IN
         (IF flag THEN <<>> ELSE <<Head(ls)>>) \o FilterLines(Tail(ls), flag)

\* the filter with no line dropped
remove_patches_keep_all(model_patch) == JoinLines(Lines(model_patch))

remove_patches_to_tests(model_patch) == JoinLines(FilterLines(Lines(model_patch), FALSE))

(***************************************************************************)
(* The results get_git_diff can hand to the completion policy: Ok(text) is *)
(* [ok |-> TRUE, text], Err(e) is [ok |-> FALSE, text |-> message of e].   *)
(***************************************************************************)
DiffCode ==
    <<"d","i","f","f"," ","-","-","g","i","t"," ","a","/","m",".","r","s"," ","b","/","m",".","r",
      "s","\n","+","x","\n">>

DiffTest ==
    <<"d","i","f","f"," ","-","-","g","i","t"," ","a","/","t","e","s","t","s","/","t",".","p","y",
      " ","b","/","t","e","s","t","s","/","t",".","p","y","\n","+","y","\n">>

DiffMixed ==
    <<"d","i","f","f"," ","-","-","g","i","t"," ","a","/","t","e","s","t","_","a",".","p","y"," ",
      "b","/","t","e","s","t","_","a",".","p","y","\n","+","y","\n","d","i","f","f"," ","-","-","g",
      "i","t"," ","a","/","m",".","r","s"," ","b","/","m",".","r","s","\n","+","x","\n">>

GitErrText ==
    <<"g","i","t"," ","f","a","i","l","e","d">>

GitOk(text) == [ok |-> TRUE, text |-> text]

GitErr(text) == [ok |-> FALSE, text |-> text]

\* what get_git_diff can return to the completion policy
GitDiffResults ==
    {GitOk(<<>>), GitOk(DiffCode), GitOk(DiffTest), GitOk(DiffMixed), GitErr(GitErrText)}

\* what get_git_diff can return when the patch is saved
SavedDiffResults == {GitOk(DiffCode), GitErr(GitErrText)}

(***************************************************************************)
(* Messages, tool calls and LLM responses (llm/base_client.rs).  A         *)
(* response is represented by choices[0].message.                          *)
(***************************************************************************)
LLMMessage(role, content, tool_calls, tool_call_id) ==
    [role |-> role, content |-> content, tool_calls |-> tool_calls,
     tool_call_id |-> tool_call_id]

ToolCall(id, name, arguments) == [id |-> id, name |-> name, arguments |-> arguments]

\* the tool calls of a message, the empty list when it has none
CallsOf(message) == IF IsSome(message.tool_calls) THEN Unwrap(message.tool_calls) ELSE <<>>

(***************************************************************************)
(* TraeAgent::fn_should_stop.  git_diff is what get_git_diff(project_path, *)
(* base_commit) returns when the policy asks for it.                       *)
(***************************************************************************)
StopReason(kind) == [kind |-> kind, msg |-> <<>>]

ValidationFailed(msg) == [kind |-> "ValidationFailed", msg |-> msg]

completion_signaled_by_tool(llm_response) ==
    /\ IsSome(llm_response.tool_calls)
    /\ \E i \in 1..Len(Unwrap(llm_response.tool_calls)) :
           Unwrap(llm_response.tool_calls)[i].name = TaskDoneName

\* the cue search without the lower-casing of the content
completion_signaled_by_text_case_sensitive(llm_response) ==
    /\ IsSome(llm_response.content)
    /\ \E k \in 1..Len(completion_indicators) :
           Contains(Unwrap(llm_response.content), completion_indicators[k])

completion_signaled_by_text(llm_response) ==
    /\ IsSome(llm_response.content)
    /\ \E k \in 1..Len(completion_indicators) :
           Contains(to_lowercase(Unwrap(llm_response.content)), completion_indicators[k])

\* the policy with the step limit tested by > instead of >=
fn_should_stop_late(llm_response, current_step_number, max_steps_arg, must_patch_arg, project_path_arg, git_diff) ==
    IF current_step_number > max_steps_arg THEN StopReason("MaxStepsReached")
    ELSE IF completion_signaled_by_tool(llm_response) \/ completion_signaled_by_text(llm_response)
    THEN IF must_patch_arg
         THEN IF IsSome(project_path_arg)
              THEN IF git_diff.ok
                   THEN IF TrimIsEmpty(remove_patches_to_tests(git_diff.text))
                        THEN ValidationFailed(MsgPatchEmpty)
                        ELSE StopReason("TaskCompleted")
                   ELSE ValidationFailed(MsgGitErrPrefix \o git_diff.text \o MsgGitErrSuffix)
              ELSE ValidationFailed(MsgNoProjectPath)
         ELSE StopReason("TaskCompleted")
    ELSE StopReason("Continue")

fn_should_stop(llm_response, current_step_number, max_steps_arg, must_patch_arg, project_path_arg, git_diff) ==
    IF current_step_number >= max_steps_arg THEN StopReason("MaxStepsReached")
    ELSE IF completion_signaled_by_tool(llm_response) \/ completion_signaled_by_text(llm_response)
    THEN IF must_patch_arg
         THEN IF IsSome(project_path_arg)
              THEN IF git_diff.ok
                   THEN IF TrimIsEmpty(remove_patches_to_tests(git_diff.text))
                        THEN ValidationFailed(MsgPatchEmpty)
                        ELSE StopReason("TaskCompleted")
                   ELSE ValidationFailed(MsgGitErrPrefix \o git_diff.text \o MsgGitErrSuffix)
              ELSE ValidationFailed(MsgNoProjectPath)
         ELSE StopReason("TaskCompleted")
    ELSE StopReason("Continue")

\* whether fn_should_stop calls get_git_diff for these arguments
AsksGitDiff(llm_response, current_step_number, max_steps_arg, must_patch_arg, project_path_arg) ==
    /\ current_step_number < max_steps_arg
    /\ completion_signaled_by_tool(llm_response) \/ completion_signaled_by_text(llm_response)
    /\ must_patch_arg
    /\ IsSome(project_path_arg)

(***************************************************************************)
(* TraeAgent::fn_process_llm_response_for_completion.                      *)
(***************************************************************************)
\* the extractor taking the summary of the last task_done call instead of the first
fn_process_last_task_done(llm_response) ==
    IF completion_signaled_by_tool(llm_response)
    THEN LET calls == Unwrap(llm_response.tool_calls)
             last == CHOOSE i \in 1..Len(calls) :
                         /\ calls[i].name = TaskDoneName
                         /\ \A j \in (i + 1)..Len(calls) : calls[j].name # TaskDoneName
             args_val == from_str(calls[last].arguments)
             member == IF IsSome(args_val) THEN JsonGet(Unwrap(args_val), SummaryKey) ELSE None
             summary == IF IsSome(member) THEN as_str(Unwrap(member)) ELSE None
         IN IF IsSome(summary)
            THEN Some(SummaryPrefix \o Unwrap(summary))
            ELSE Some(MarkedDone)
    ELSE llm_response.content

fn_process_llm_response_for_completion(llm_response) ==
    IF completion_signaled_by_tool(llm_response)
    THEN LET calls == Unwrap(llm_response.tool_calls)
             first == CHOOSE i \in 1..Len(calls) :
                          /\ calls[i].name = TaskDoneName
                          /\ \A j \in 1..(i - 1) : calls[j].name # TaskDoneName
             args_val == from_str(calls[first].arguments)
             member == IF IsSome(args_val) THEN JsonGet(Unwrap(args_val), SummaryKey) ELSE None
             summary == IF IsSome(member) THEN as_str(Unwrap(member)) ELSE None
         IN IF IsSome(summary)
            THEN Some(SummaryPrefix \o Unwrap(summary))
            ELSE Some(MarkedDone)
    ELSE llm_response.content

(***************************************************************************)
(* The interactive-turn policy and its extractor.                          *)
(***************************************************************************)
\* the turn policy without the stop on a direct reply
fn_should_stop_interactive_no_direct_reply(llm_response, current_step_in_turn, max_steps_for_turn) ==
    IF current_step_in_turn >= max_steps_for_turn THEN StopReason("TaskCompleted")
    ELSE IF current_step_in_turn = 1 THEN StopReason("Continue")
    ELSE StopReason("TaskCompleted")

fn_should_stop_interactive(llm_response, current_step_in_turn, max_steps_for_turn) ==
    IF current_step_in_turn >= max_steps_for_turn THEN StopReason("TaskCompleted")
    ELSE IF IsNone(llm_response.tool_calls) \/ Len(CallsOf(llm_response)) = 0
    THEN StopReason("TaskCompleted")
    ELSE IF current_step_in_turn = 1 /\ IsSome(llm_response.tool_calls)
            /\ Len(Unwrap(llm_response.tool_calls)) # 0
    THEN StopReason("Continue")
    ELSE IF current_step_in_turn > 1 THEN StopReason("TaskCompleted")
    ELSE StopReason("Continue")

fn_extract_assistant_response_interactive(llm_response) == llm_response.content

Min(a, b) == IF a < b THEN a ELSE b

(***************************************************************************)
(* Tools and the tool executor (tools/base.rs, tools/mod.rs).              *)
(***************************************************************************)
\* ToolRegistry::default()
DefaultRegistry ==
    {BashName, EditToolName, JsonEditToolName, SequentialThinkingName, TaskDoneName}

\* Result<ToolExecResult, ToolError>: for Ok the three fields of the
\* ToolExecResult, for Err the text of the ToolError in error
ExecOk(output, error, error_code) ==
    [ok |-> TRUE, output |-> output, error |-> error, error_code |-> error_code]

ExecErr(text) == [ok |-> FALSE, output |-> None, error |-> Some(text), error_code |-> 1]

TxtOut ==
    <<"o","u","t">>

TxtExit1 ==
    <<"e","x","i","t"," ","s","t","a","t","u","s",":"," ","1">>

TxtExecFailed ==
    <<"T","o","o","l"," ","e","x","e","c","u","t","i","o","n"," ","f","a","i","l","e","d",":"," ",
      "s","p","a","w","n">>

TxtSignaled ==
    <<"T","a","s","k"," ","c","o","m","p","l","e","t","i","o","n"," ","s","i","g","n","a","l","e",
      "d","."," ","S","u","m","m","a","r","y",":"," ">>

TxtNoSummary ==
    <<"N","o"," ","s","u","m","m","a","r","y"," ","p","r","o","v","i","d","e","d",".">>

TxtInvalidArgsTaskDone ==
    <<"I","n","v","a","l","i","d"," ","a","r","g","u","m","e","n","t","s"," ","f","o","r"," ","t",
      "o","o","l"," ","'","t","a","s","k","_","d","o","n","e","'",":"," ","F","a","i","l","e","d",
      " ","t","o"," ","p","a","r","s","e"," ","a","r","g","u","m","e","n","t","s">>

TxtMustParse ==
    <<"T","o","o","l"," ","a","r","g","u","m","e","n","t","s"," ","m","u","s","t"," ","p","a","r",
      "s","e"," ","t","o"," ","a"," ","J","S","O","N"," ","o","b","j","e","c","t"," ","o","r"," ",
      "n","u","l","l","."," ","P","a","r","s","e","d"," ","a","s",":"," ">>

TxtInvalidJson ==
    <<"I","n","v","a","l","i","d"," ","J","S","O","N"," ","a","r","g","u","m","e","n","t","s"," ",
      "f","o","r"," ","t","o","o","l"," ">>

TxtNotFoundPrefix ==
    <<"T","o","o","l"," ","'">>

TxtNotFoundSuffix ==
    <<"'"," ","n","o","t"," ","f","o","u","n","d","."," ","A","v","a","i","l","a","b","l","e"," ",
      "t","o","o","l","s">>

\* what the execute of a tool other than task_done can return
ToolOutcomes ==
    {ExecOk(Some(TxtOut), None, 0),
     ExecOk(Some(TxtOut), Some(TxtExit1), 1),
     ExecErr(TxtExecFailed)}

\* serde_json::from_value::<TaskDoneArgs>: Some(summary) or None for an error
TaskDoneArgs(arguments) ==
    IF arguments.t # "object" THEN None
    ELSE LET member == JsonGet(arguments, SummaryKey) IN
         IF IsNone(member) \/ Unwrap(member).t = "null" THEN Some(None)
         ELSE IF Unwrap(member).t = "string" THEN Some(Some(Unwrap(member).v))
         ELSE None

\* TaskDoneTool::execute
TaskDoneExecute(arguments) ==
    LET args == TaskDoneArgs(arguments) IN
    IF IsNone(args) THEN ExecErr(TxtInvalidArgsTaskDone)
    ELSE LET summary_message == IF IsSome(Unwrap(args)) THEN Unwrap(Unwrap(args))
                                ELSE TxtNoSummary
         IN ExecOk(Some(TxtSignaled \o summary_message), None, 0)

\* tool.execute(arguments); outcome is what a tool other than task_done does
ToolExecute(name, arguments, outcome) ==
    IF name = TaskDoneName THEN TaskDoneExecute(arguments) ELSE outcome

ToolResult(tool_call_id, success, result, error) ==
    [tool_call_id |-> tool_call_id, success |-> success, result |-> result, error |-> error]

\* the result of an execute that loses the text of a ToolError
ResultOfExecNoErrorText(tool_call_id, exec) ==
    IF exec.ok
    THEN ToolResult(tool_call_id, exec.error_code = 0, exec.output, exec.error)
    ELSE ToolResult(tool_call_id, FALSE, None, None)

\* the result of an execute that reports every Ok as a success
ResultOfExecAlwaysSuccess(tool_call_id, exec) ==
    IF exec.ok
    THEN ToolResult(tool_call_id, TRUE, exec.output, exec.error)
    ELSE ToolResult(tool_call_id, FALSE, None, exec.error)

ResultOfExec(tool_call_id, exec) ==
    IF exec.ok
    THEN ToolResult(tool_call_id, exec.error_code = 0, exec.output, exec.error)
    ELSE ToolResult(tool_call_id, FALSE, None, exec.error)

\* the argument with which every tool that is reached gets the parsed text,
\* a blank text included
tool_argument_parse_only(tools, tool_call_request) ==
    IF tool_call_request.name \in tools
    THEN LET args_value == from_str(tool_call_request.arguments) IN
         IF IsSome(args_value)
         THEN IF ~is_object(Unwrap(args_value)) /\ ~is_null(Unwrap(args_value))
              THEN None
              ELSE args_value
         ELSE IF TrimIsEmpty(tool_call_request.arguments)
              THEN Some(JObject(<<>>))
              ELSE None
    ELSE None

\* the argument with which every parsed value reaches the tool
tool_argument_any_value(tools, tool_call_request) ==
    IF tool_call_request.name \in tools
    THEN LET args_value == from_str(tool_call_request.arguments) IN
         IF IsSome(args_value)
         THEN args_value
         ELSE IF TrimIsEmpty(tool_call_request.arguments)
              THEN Some(JNull)
              ELSE None
    ELSE None

\* the Value execute_tool_call passes to tool.execute, None on the paths that
\* return without calling the tool
tool_argument(tools, tool_call_request) ==
    IF tool_call_request.name \in tools
    THEN LET args_value == from_str(tool_call_request.arguments) IN
         IF IsSome(args_value)
         THEN IF ~is_object(Unwrap(args_value)) /\ ~is_null(Unwrap(args_value))
              THEN None
              ELSE args_value
         ELSE IF TrimIsEmpty(tool_call_request.arguments)
              THEN Some(JNull)
              ELSE None
    ELSE None

\* the executor answering every request under the id 0
execute_tool_call_fixed_id(tools, tool_call_request, outcome) ==
    IF tool_call_request.name \in tools
    THEN IF IsSome(tool_argument(tools, tool_call_request))
         THEN ResultOfExec(0,
                           ToolExecute(tool_call_request.name,
                                       Unwrap(tool_argument(tools, tool_call_request)),
                                       outcome))
         ELSE IF IsSome(from_str(tool_call_request.arguments))
              THEN ToolResult(0, FALSE, None,
                              Some(TxtMustParse \o tool_call_request.arguments))
              ELSE ToolResult(0, FALSE, None,
                              Some(TxtInvalidJson \o tool_call_request.name))
    ELSE ToolResult(tool_call_request.id, FALSE, None,
                    Some(TxtNotFoundPrefix \o tool_call_request.name \o TxtNotFoundSuffix))

\* ToolExecutor::execute_tool_call
execute_tool_call(tools, tool_call_request, outcome) ==
    IF tool_call_request.name \in tools
    THEN IF IsSome(tool_argument(tools, tool_call_request))
         THEN ResultOfExec(tool_call_request.id,
                           ToolExecute(tool_call_request.name,
                                       Unwrap(tool_argument(tools, tool_call_request)),
                                       outcome))
         ELSE IF IsSome(from_str(tool_call_request.arguments))
              THEN ToolResult(tool_call_request.id, FALSE, None,
                              Some(TxtMustParse \o tool_call_request.arguments))
              ELSE ToolResult(tool_call_request.id, FALSE, None,
                              Some(TxtInvalidJson \o tool_call_request.name))
    ELSE ToolResult(tool_call_request.id, FALSE, None,
                    Some(TxtNotFoundPrefix \o tool_call_request.name \o TxtNotFoundSuffix))

\* whether execute_tool_call reaches the execute of a tool other than task_done
ReachesOutcome(tools, tool_call_request) ==
    /\ tool_call_request.name # TaskDoneName
    /\ IsSome(tool_argument(tools, tool_call_request))

(***************************************************************************)
(* The tasks, task arguments and LLM responses the environment can supply. *)
(***************************************************************************)
\* Value::as_bool()
as_bool(val) == IF val.t = "bool" THEN Some(val.v = <<"t","r","u","e">>) ELSE None

SystemPrompt ==
    <<"Y","o","u"," ","a","r","e"," ","a","n"," ","e","x","p","e","r","t"," ","A","I"," ","s","o",
      "f","t","w","a","r","e"," ","e","n","g","i","n","e","e","r","i","n","g"," ","a","g","e","n",
      "t",".">>

IssuePrefix ==
    <<"[","P","r","o","b","l","e","m"," ","s","t","a","t","e","m","e","n","t","]",":"," ","W","e",
      "'","r","e"," ","c","u","r","r","e","n","t","l","y"," ","s","o","l","v","i","n","g"," ","t",
      "h","e"," ","f","o","l","l","o","w","i","n","g"," ","i","s","s","u","e"," ","w","i","t","h",
      "i","n"," ","o","u","r"," ","r","e","p","o","s","i","t","o","r","y","."," ","H","e","r","e",
      "'","s"," ","t","h","e"," ","i","s","s","u","e"," ","t","e","x","t",":","\n">>

ProblemPrefix ==
    <<"[","P","r","o","b","l","e","m"," ","s","t","a","t","e","m","e","n","t","]",":"," ">>

ProjectRootPrefix ==
    <<"\n","[","P","r","o","j","e","c","t"," ","r","o","o","t"," ","p","a","t","h","]",":"," ">>

MsgMaxSteps ==
    <<"m","a","x"," ","s","t","e","p","s"," ","r","e","a","c","h","e","d">>

KeyProjectPath ==
    <<"p","r","o","j","e","c","t","_","p","a","t","h">>

KeyMustPatch ==
    <<"m","u","s","t","_","p","a","t","c","h">>

KeyBaseCommit ==
    <<"b","a","s","e","_","c","o","m","m","i","t">>

KeyPatchPath ==
    <<"p","a","t","c","h","_","p","a","t","h">>

KeyIssue ==
    <<"i","s","s","u","e">>

TxtTask ==
    <<"f","i","x">>

TxtIssue ==
    <<"b","u","g">>

TxtPath ==
    <<"/","p">>

TxtCommit ==
    <<"c","1">>

TxtPatchFile ==
    <<"/","o">>

TxtTrueUpper ==
    <<"T","R","U","E">>

TxtNo ==
    <<"n","o">>

TxtWorking ==
    <<"w","o","r","k","i","n","g">>

TxtDone ==
    <<"D","o","n","e",".">>

UnknownToolName ==
    <<"n","o","p","e">>

Tasks == {TxtTask}

\* Option<Value> task_args
TaskArgs ==
    {None,
     Some(JObject(<< <<KeyProjectPath, JString(TxtPath)>>, <<KeyMustPatch, JBool(TRUE)>>,
                     <<KeyBaseCommit, JString(TxtCommit)>>,
                     <<KeyPatchPath, JString(TxtPatchFile)>> >>)),
     Some(JObject(<< <<KeyMustPatch, JString(TxtTrueUpper)>>, <<KeyIssue, JString(TxtIssue)>> >>)),
     Some(JObject(<< <<KeyMustPatch, JBool(FALSE)>> >>)),
     Some(JObject(<< <<KeyMustPatch, JString(TxtNo)>>, <<KeyProjectPath, JNumber(<<"5">>)>>,
                     <<KeyIssue, JNumber(<<"7">>)>> >>))}

Template(content, calls) == [content |-> content, tool_calls |-> calls]

Call(name, arguments) == [name |-> name, arguments |-> arguments]

\* what chat() can return, before the calls get their ids
LLMResponses ==
    {Template(Some(TxtWorking), None),
     Template(None, Some(<<Call(BashName, ArgsCommand)>>)),
     Template(None, Some(<<Call(TaskDoneName, ArgsSummaryOk)>>)),
     Template(Some(TxtDone), None),
     Template(Some(TxtWorking),
              Some(<<Call(BashName, ArgsCommand), Call(TaskDoneName, ArgsSummaryNumber)>>)),
     Template(None, Some(<<>>)),
     Template(None, Some(<<Call(TaskDoneName, ArgsNotJson), Call(TaskDoneName, ArgsSummaryOk)>>)),
     Template(None, Some(<<Call(UnknownToolName, ArgsBlank), Call(BashName, ArgsArray)>>))}

\* the most tool calls one response carries
MaxCalls ==
    CHOOSE n \in {Len(CallsOf(r)) : r \in LLMResponses} :
        \A r \in LLMResponses : Len(CallsOf(r)) <= n

\* the LLM gives every tool call of a conversation its own id
WithIds(template, step) ==
    [content |-> template.content,
     tool_calls |-> IF IsSome(template.tool_calls)
                    THEN Some([i \in 1..Len(Unwrap(template.tool_calls)) |->
                                 ToolCall((step - 1) * MaxCalls + i,
                                          Unwrap(template.tool_calls)[i].name,
                                          Unwrap(template.tool_calls)[i].arguments)])
                    ELSE None]

NoResponse == [content |-> None, tool_calls |-> None]

NoResult == [kind |-> "None", messages |-> <<>>]

NoExecution ==
    [task |-> <<>>, steps |-> <<>>, success |-> FALSE, final_result |-> None,
     error_message |-> None]

(***************************************************************************)
(* State.                                                                  *)
(***************************************************************************)
VARIABLES
    pc,                        \* "created", "ready", "llm", "tools", "returned"
    mode,                      \* "batch" (execute_task) or "interactive"
    current_task,              \* BaseAgent fields
    conversation_history,
    max_steps,
    project_path,
    base_commit,
    patch_path,
    must_patch,
    step_number,               \* locals of common_execute_task_loop
    llm_request,
    llm_response,
    stop_reason,
    tool_index,
    step_tool_results,
    execution,
    history_before_execution,  \* local of execute_interactive_turn
    llm_calls,                 \* number of chat() calls of this execution
    git_diff_seen,             \* what get_git_diff returned to the last policy call
    tool_argument_seen,        \* what the last executor call passed to tool.execute
    result,                    \* what the last call of the agent returned
    patch_file,                \* content of the file at patch_path, None when absent
    batch_pc,                  \* ToolExecutor: "idle", "parallel", "sequential"
    batch_calls,               \* the tool_calls slice of the compound operation
    batch_outcomes,            \* what the execute of the tool of each call returns
    finish_order,              \* parallel: the indices in the order the futures finished
    join_slots,                \* parallel: join_all's output slot of each future
    seq_results,               \* sequential: the results vector
    parallel_output,           \* what parallel_tool_calls returned, None before
    sequential_output,         \* what sequential_tool_calls returned, None before
    bash_pc,                   \* BashTool::execute: "idle", "waiting", "returned", "panicked"
    bash_args,                 \* the BashToolArgs of the call, None before
    child,                     \* the sh process: "none", "running", "exited", "killed"
    timer,                     \* the timer of tokio::time::timeout: "none", "armed", "elapsed"
    child_output,              \* stdout, stderr and exit code of the exited process
    bash_streams,              \* the locals stdout and stderr of execute, None before
    bash_result,               \* what execute returned, None before
    elapsed_while_running,     \* the timer elapsed before the process exited
    files,                     \* the file system: path -> content, None when absent
    edit_args,                 \* the arguments of the last EditTool::execute
    edit_result,               \* what the last EditTool::execute returned
    json_file,                 \* the text of the JSON file, None when absent
    json_args,                 \* the arguments of the last JsonEditTool::execute
    json_result,               \* what the last JsonEditTool::execute returned
    json_saved,                \* the value the last call gave to save_json_file
    model_patch,               \* the diff text given to remove_patches_to_tests
    filtered,                  \* what remove_patches_to_tests returned for it, None before
    filtered_again,           \* what it returned for the filtered text, None before
    trajectory,                \* the recorder's current recording, None when none is active
    trajectory_file,           \* the text of the file at trajectory_path, None before it is written
    recorder_calls,            \* the calls made to the recorder, each with its arguments
    last_written,             \* the record the latest call serialized to the file, None if it wrote none
    emit_phase,                \* where the loop of the agent stands in issuing its events
    emit_step,                 \* the step the loop is in
    emit_call,                 \* the tool call of the step that is being run
    emit_calls,                \* the number of tool calls of the response of the step
    emit_success,              \* whether the loop ended with success
    issued,                    \* the events the agent has issued, in order
    channel,                   \* the events sent and not yet received
    received,                  \* the events the consumer has received, in order
    consumer_pc               \* the consumer task: receiving, finished, or gone with its receiver

agent == <<current_task, max_steps, project_path, base_commit, patch_path, must_patch>>

agent_vars ==
    <<pc, mode, current_task, conversation_history, max_steps, project_path, base_commit,
      patch_path, must_patch, step_number, llm_request, llm_response, stop_reason,
      tool_index, step_tool_results, execution, history_before_execution, llm_calls,
      git_diff_seen, tool_argument_seen, result, patch_file>>

executor_vars ==
    <<batch_pc, batch_calls, batch_outcomes, finish_order, join_slots, seq_results,
      parallel_output, sequential_output>>

bash_vars ==
    <<bash_pc, bash_args, child, timer, child_output, bash_streams, bash_result,
      elapsed_while_running>>

edit_vars == <<files, edit_args, edit_result>>

json_vars == <<json_file, json_args, json_result, json_saved>>

patch_vars == <<model_patch, filtered, filtered_again>>

recorder_vars == <<trajectory, trajectory_file, recorder_calls, last_written>>

event_vars == <<emit_phase, emit_step, emit_call, emit_calls, emit_success, issued, channel, received, consumer_pc>>

more_vars == <<json_vars, patch_vars, recorder_vars, event_vars>>

tool_vars == <<executor_vars, bash_vars, edit_vars, more_vars>>

json_frame == <<agent_vars, executor_vars, bash_vars, edit_vars, patch_vars, recorder_vars, event_vars>>

patch_frame == <<agent_vars, executor_vars, bash_vars, edit_vars, json_vars, recorder_vars, event_vars>>

recorder_frame == <<agent_vars, executor_vars, bash_vars, edit_vars, json_vars, patch_vars, event_vars>>

event_frame == <<agent_vars, executor_vars, bash_vars, edit_vars, json_vars, patch_vars, recorder_vars>>

vars == <<agent_vars, tool_vars>>

\* no compound operation of the executor under way
ExecutorIdle ==
    /\ batch_pc = "idle"
    /\ batch_calls = <<>>
    /\ batch_outcomes = <<>>
    /\ finish_order = <<>>
    /\ join_slots = <<>>
    /\ seq_results = <<>>
    /\ parallel_output = None
    /\ sequential_output = None

\* no bash call under way
BashIdle ==
    /\ bash_pc = "idle"
    /\ bash_args = None
    /\ child = "none"
    /\ timer = "none"
    /\ child_output = None
    /\ bash_streams = None
    /\ bash_result = None
    /\ elapsed_while_running = FALSE

\* no file, no edit yet
EditIdle ==
    /\ files = <<>>
    /\ edit_args = None
    /\ edit_result = None

\* no JSON file, no JSON edit yet
JsonIdle ==
    /\ json_file = None
    /\ json_args = None
    /\ json_result = None
    /\ json_saved = None

PatchIdle ==
    /\ model_patch = None
    /\ filtered = None
    /\ filtered_again = None

RecorderIdle ==
    /\ trajectory = None
    /\ trajectory_file = None
    /\ recorder_calls = <<>>
    /\ last_written = None

EventIdle ==
    /\ emit_phase = "absent"
    /\ emit_step = 0
    /\ emit_call = 0
    /\ emit_calls = 0
    /\ emit_success = FALSE
    /\ issued = <<>>
    /\ channel = <<>>
    /\ received = <<>>
    /\ consumer_pc = "absent"

MoreIdle == JsonIdle /\ PatchIdle /\ RecorderIdle /\ EventIdle

Init ==
    /\ pc = "created"
    /\ mode = "batch"
    /\ current_task = None
    /\ conversation_history = <<>>
    /\ max_steps \in 1..MaxStepsBound
    /\ project_path = None
    /\ base_commit = None
    /\ patch_path = None
    /\ must_patch = FALSE
    /\ step_number = 0
    /\ llm_request = <<>>
    /\ llm_response = NoResponse
    /\ stop_reason = StopReason("None")
    /\ tool_index = 0
    /\ step_tool_results = <<>>
    /\ execution = NoExecution
    /\ history_before_execution = <<>>
    /\ llm_calls = 0
    /\ git_diff_seen = None
    /\ tool_argument_seen = None
    /\ result = NoResult
    /\ patch_file = None
    /\ ExecutorIdle
    /\ BashIdle
    /\ EditIdle
    /\ MoreIdle

(***************************************************************************)
(* TraeAgent::new_task.                                                    *)
(***************************************************************************)
\* args.get(key).as_str() of Option<Value> task_args
ArgStr(task_args, key) ==
    IF IsSome(task_args) /\ IsSome(JsonGet(Unwrap(task_args), key))
    THEN as_str(Unwrap(JsonGet(Unwrap(task_args), key)))
    ELSE None

RECURSIVE trim_end(_)
trim_end(s) ==
    IF s # <<>> /\ IsWhite(s[Len(s)]) THEN trim_end(SubSeq(s, 1, Len(s) - 1)) ELSE s

\* a must_patch that falls back to its default when the task names none
NewMustPatchOrDefault(task_args, old) ==
    IF IsSome(task_args) /\ IsSome(JsonGet(Unwrap(task_args), KeyMustPatch))
    THEN LET patch_val == Unwrap(JsonGet(Unwrap(task_args), KeyMustPatch)) IN
         IF IsSome(as_bool(patch_val)) THEN Unwrap(as_bool(patch_val))
         ELSE IF IsSome(as_str(patch_val))
              THEN to_lowercase(Unwrap(as_str(patch_val))) = <<"t","r","u","e">>
              ELSE FALSE
    ELSE FALSE

NewMustPatch(task_args, old) ==
    IF IsSome(task_args) /\ IsSome(JsonGet(Unwrap(task_args), KeyMustPatch))
    THEN LET patch_val == Unwrap(JsonGet(Unwrap(task_args), KeyMustPatch)) IN
         IF IsSome(as_bool(patch_val)) THEN Unwrap(as_bool(patch_val))
         ELSE IF IsSome(as_str(patch_val))
              THEN to_lowercase(Unwrap(as_str(patch_val))) = <<"t","r","u","e">>
              ELSE old
    ELSE old

OrOld(new, old) == IF IsSome(new) THEN new ELSE old

\* the user message that states the task even when an issue is given
UserMessageContentTaskOnly(task, task_args, path) ==
    LET problem == ProblemPrefix \o task \o <<"\n">>
        root == IF IsSome(path) THEN ProjectRootPrefix \o Unwrap(path) \o <<"\n">> ELSE <<>>
    IN trim_end(problem \o root) \o <<"\n">>

UserMessageContent(task, task_args, path) ==
    LET problem == IF IsSome(ArgStr(task_args, KeyIssue))
                   THEN IssuePrefix \o Unwrap(ArgStr(task_args, KeyIssue)) \o <<"\n">>
                   ELSE ProblemPrefix \o task \o <<"\n">>
        root == IF IsSome(path) THEN ProjectRootPrefix \o Unwrap(path) \o <<"\n">> ELSE <<>>
    IN trim_end(problem \o root) \o <<"\n">>

new_task(task, task_args) ==
    /\ pc \in {"created", "ready", "returned"}
    /\ pc' = "ready"
    /\ current_task' = Some(task)
    /\ project_path' = OrOld(ArgStr(task_args, KeyProjectPath), project_path)
    /\ must_patch' = NewMustPatch(task_args, must_patch)
    /\ base_commit' = OrOld(ArgStr(task_args, KeyBaseCommit), base_commit)
    /\ patch_path' = OrOld(ArgStr(task_args, KeyPatchPath), patch_path)
    /\ conversation_history' =
           <<LLMMessage("system", Some(SystemPrompt), None, None),
             LLMMessage("user", Some(UserMessageContent(task, task_args, project_path')),
                        None, None)>>
    /\ step_number' = 0
    /\ llm_request' = <<>>
    /\ llm_response' = NoResponse
    /\ stop_reason' = StopReason("None")
    /\ tool_index' = 0
    /\ step_tool_results' = <<>>
    /\ execution' = NoExecution
    /\ history_before_execution' = <<>>
    /\ llm_calls' = 0
    /\ git_diff_seen' = None
    /\ tool_argument_seen' = None
    /\ UNCHANGED tool_vars
    /\ result' = NoResult
    /\ UNCHANGED <<mode, max_steps, patch_file>>

NewTask == \E task \in Tasks, task_args \in TaskArgs : new_task(task, task_args)

(***************************************************************************)
(* Patch persistence and the return of the two entry points.               *)
(***************************************************************************)
\* TraeAgent::save_git_patch_if_needed: the file after the call
PatchFileAfter(git_diff, write_ok) ==
    IF IsSome(patch_path) /\ IsSome(project_path) /\ git_diff.ok /\ write_ok
    THEN Some(git_diff.text)
    ELSE patch_file

SavesPatch == IsSome(patch_path) /\ IsSome(project_path)

\* the whole history returned as the messages of the turn
NewMessagesWholeHistory(history) == history

\* history_after_execution[history_before_execution.len()..]
NewMessagesThisTurn(history) ==
    IF Len(history) > Len(history_before_execution)
    THEN SubSeq(history, Len(history_before_execution) + 1, Len(history))
    ELSE <<>>

\* the return that reports Ok whatever the loop ended with
ReturnIgnoringError(history, exec, kind) ==
    /\ pc' = "returned"
    /\ conversation_history' = history
    /\ execution' = exec
    /\ tool_index' = 0
    /\ step_tool_results' = <<>>
    /\ UNCHANGED <<step_number, llm_request>>
    /\ IF mode = "batch"
       THEN /\ result' = [kind |-> "Ok", messages |-> <<>>]
            /\ \E git_diff \in (IF SavesPatch THEN SavedDiffResults ELSE {GitErr(GitErrText)}),
                  write_ok \in (IF SavesPatch THEN BOOLEAN ELSE {FALSE}) :
                   patch_file' = PatchFileAfter(git_diff, write_ok)
       ELSE /\ result' = [kind |-> "Ok", messages |-> NewMessagesThisTurn(history)]
            /\ UNCHANGED patch_file

\* the return that fails the task when the patch could not be saved
ReturnFailingOnPatch(history, exec, kind) ==
    /\ pc' = "returned"
    /\ conversation_history' = history
    /\ execution' = exec
    /\ tool_index' = 0
    /\ step_tool_results' = <<>>
    /\ UNCHANGED <<step_number, llm_request>>
    /\ IF mode = "batch"
       THEN \E git_diff \in (IF SavesPatch THEN SavedDiffResults ELSE {GitErr(GitErrText)}),
               write_ok \in (IF SavesPatch THEN BOOLEAN ELSE {FALSE}) :
                /\ patch_file' = PatchFileAfter(git_diff, write_ok)
                /\ result' = [kind |-> IF SavesPatch /\ ~(git_diff.ok /\ write_ok)
                                       THEN "Err" ELSE kind,
                              messages |-> <<>>]
       ELSE /\ result' = [kind |-> kind, messages |-> NewMessagesThisTurn(history)]
            /\ UNCHANGED patch_file

\* the loop has ended with history and record exec (kind "Ok"), or with an
\* error of the LLM client (kind "Err"); the entry point finishes and returns
Return(history, exec, kind) ==
    /\ pc' = "returned"
    /\ conversation_history' = history
    /\ execution' = exec
    /\ tool_index' = 0
    /\ step_tool_results' = <<>>
    /\ UNCHANGED <<step_number, llm_request>>
    /\ IF mode = "batch"
       THEN /\ result' = [kind |-> kind, messages |-> <<>>]
            /\ \E git_diff \in (IF SavesPatch THEN SavedDiffResults ELSE {GitErr(GitErrText)}),
                  write_ok \in (IF SavesPatch THEN BOOLEAN ELSE {FALSE}) :
                   patch_file' = PatchFileAfter(git_diff, write_ok)
       ELSE /\ result' = [kind |-> kind, messages |-> NewMessagesThisTurn(history)]
            /\ UNCHANGED patch_file

(***************************************************************************)
(* common_execute_task_loop, one step at a time.  A step is: call the LLM, *)
(* append the assistant message, ask the completion policy, run the tool   *)
(* calls in order, record the step.                                        *)
(***************************************************************************)
\* the loop is entered with the history as initial messages
EnterLoop ==
    /\ pc' = "llm"
    /\ step_number' = 1
    /\ llm_request' = conversation_history
    /\ llm_response' = NoResponse
    /\ stop_reason' = StopReason("None")
    /\ tool_index' = 0
    /\ step_tool_results' = <<>>
    /\ execution' = [NoExecution EXCEPT !.task = Unwrap(current_task)]
    /\ llm_calls' = 0
    /\ git_diff_seen' = None
    /\ tool_argument_seen' = None
    /\ UNCHANGED tool_vars
    /\ UNCHANGED <<conversation_history, patch_file>>

TaskSetupFailed ==
    /\ pc' = "returned"
    /\ result' = [kind |-> "Err", messages |-> <<>>]
    /\ UNCHANGED <<conversation_history, step_number, llm_request, llm_response, stop_reason,
                   tool_index, step_tool_results, execution, llm_calls, git_diff_seen,
                   tool_argument_seen, tool_vars, patch_file>>

execute_task ==
    /\ pc \in {"created", "ready"}
    /\ mode' = "batch"
    /\ history_before_execution' = <<>>
    /\ IF IsNone(current_task) \/ Len(conversation_history) < 2
       THEN TaskSetupFailed
       ELSE /\ EnterLoop
            /\ result' = NoResult
    /\ UNCHANGED agent

execute_interactive_turn ==
    /\ pc \in {"created", "ready"}
    /\ mode' = "interactive"
    /\ IF IsNone(current_task) \/ Len(conversation_history) < 1
       THEN /\ TaskSetupFailed
            /\ history_before_execution' = <<>>
       ELSE /\ EnterLoop
            /\ history_before_execution' = conversation_history
            /\ result' = NoResult
    /\ UNCHANGED agent

\* the batch policy handed to the loop by both entry points
should_stop_batch_always(response, git_diff) ==
    fn_should_stop(response, step_number, max_steps, must_patch, project_path, git_diff)

\* the completion policy closure each entry point hands to the loop
should_stop(response, git_diff) ==
    IF mode = "batch"
    THEN fn_should_stop(response, step_number, max_steps, must_patch, project_path, git_diff)
    ELSE fn_should_stop_interactive(response, step_number, Min(max_steps, 2))

\* the completion extractor closure each entry point hands to the loop
final_message(response) ==
    IF mode = "batch"
    THEN fn_process_llm_response_for_completion(response)
    ELSE fn_extract_assistant_response_interactive(response)

PolicyAsksGit(response) ==
    /\ mode = "batch"
    /\ AsksGitDiff(response, step_number, max_steps, must_patch, project_path)

AgentStep(number, state, response, tool_calls, tool_results) ==
    [step_number |-> number, state |-> state, llm_response |-> response,
     tool_calls |-> tool_calls, tool_results |-> tool_results]

\* the loop runs steps 1..max_steps
LoopHasNext == step_number < max_steps

\* the next iteration with the step counter left as it is and no upper limit
NextStepSameNumber(history, exec) ==
    /\ pc' = "llm"
    /\ step_number' = step_number
    /\ conversation_history' = history
    /\ llm_request' = history
    /\ execution' = exec
    /\ tool_index' = 0
    /\ step_tool_results' = <<>>
    /\ UNCHANGED <<result, patch_file>>

\* the next iteration sending the request of the iteration before
NextStepStaleRequest(history, exec) ==
    IF LoopHasNext
    THEN /\ pc' = "llm"
         /\ step_number' = step_number + 1
         /\ conversation_history' = history
         /\ llm_request' = llm_request
         /\ execution' = exec
         /\ tool_index' = 0
         /\ step_tool_results' = <<>>
         /\ UNCHANGED <<result, patch_file>>
    ELSE Return(history, exec, "Ok")

\* the next iteration begins: its request carries the whole history
NextStep(history, exec) ==
    IF LoopHasNext
    THEN /\ pc' = "llm"
         /\ step_number' = step_number + 1
         /\ conversation_history' = history
         /\ llm_request' = history
         /\ execution' = exec
         /\ tool_index' = 0
         /\ step_tool_results' = <<>>
         /\ UNCHANGED <<result, patch_file>>
    ELSE Return(history, exec, "Ok")

\* steps 7 and 8: the step is recorded, then the next iteration begins
RecordStep(history, state, response, tool_results) ==
    NextStep(history,
             [execution EXCEPT !.steps =
                  Append(@, AgentStep(step_number, state, response,
                                      CallsOf(response), tool_results))])

\* the synthetic user message of a failed validation
RecoveryMessage(msg) == LLMMessage("user", Some(msg), None, None)

\* step 5: what the loop does with the answer of the completion policy
OnStop(stop, response, history) ==
    CASE stop.kind = "TaskCompleted" ->
             Return(history,
                    [execution EXCEPT !.success = TRUE,
                                      !.final_result = final_message(response)],
                    "Ok")
      [] stop.kind = "MaxStepsReached" ->
             Return(history,
                    [execution EXCEPT !.success = FALSE,
                                      !.error_message = Some(MsgMaxSteps)],
                    "Ok")
      [] stop.kind = "ValidationFailed" ->
             NextStep(Append(history, RecoveryMessage(stop.msg)), execution)
      [] stop.kind = "Continue" ->
             IF Len(CallsOf(response)) > 0
             THEN /\ pc' = "tools"
                  /\ tool_index' = 1
                  /\ step_tool_results' = <<>>
                  /\ conversation_history' = history
                  /\ UNCHANGED <<step_number, llm_request, execution, result, patch_file>>
             ELSE RecordStep(history, "Thinking", response, <<>>)

\* chat() returns a response: steps 4 and 5 of the iteration
LLMReturn ==
    /\ pc = "llm"
    /\ \E template \in LLMResponses :
          LET response == WithIds(template, step_number)
              assistant == LLMMessage("assistant", response.content, response.tool_calls, None)
          IN \E git_diff \in (IF PolicyAsksGit(response) THEN GitDiffResults
                              ELSE {GitErr(GitErrText)}) :
                 /\ llm_calls' = llm_calls + 1
                 /\ llm_response' = response
                 /\ stop_reason' = should_stop(response, git_diff)
                 /\ git_diff_seen' = IF PolicyAsksGit(response) THEN Some(git_diff) ELSE None
                 /\ OnStop(stop_reason', response, Append(conversation_history, assistant))
    /\ tool_argument_seen' = None
    /\ UNCHANGED tool_vars
    /\ UNCHANGED <<agent, mode, history_before_execution>>

\* chat() returns an error: it is propagated and the loop ends
LLMFail ==
    /\ pc = "llm"
    /\ llm_calls' = llm_calls + 1
    /\ Return(conversation_history, execution, "Err")
    /\ UNCHANGED <<agent, mode, history_before_execution, llm_response, stop_reason,
                   git_diff_seen, tool_argument_seen, tool_vars>>

\* the text a tool result puts into its tool-role message
ToolMessageContent(res) == IF res.success THEN res.result ELSE res.error

\* the tool-role message without the id of the call it answers
ToolMessageWithoutId(res) == LLMMessage("tool", ToolMessageContent(res), None, None)

ToolMessage(res) ==
    LLMMessage("tool", ToolMessageContent(res), None, Some(res.tool_call_id))

\* step 6, one tool call: the executor returns its result
ToolReturn ==
    /\ pc = "tools"
    /\ LET calls == CallsOf(llm_response)
           call == calls[tool_index]
       IN \E outcome \in (IF ReachesOutcome(DefaultRegistry, call) THEN ToolOutcomes
                          ELSE {ExecErr(TxtExecFailed)}) :
              LET res == execute_tool_call(DefaultRegistry, call, outcome)
                  history == Append(conversation_history, ToolMessage(res))
                  results == Append(step_tool_results, res)
              IN IF tool_index < Len(calls)
                 THEN /\ tool_index' = tool_index + 1
                      /\ step_tool_results' = results
                      /\ conversation_history' = history
                      /\ UNCHANGED <<pc, step_number, llm_request, execution, result,
                                     patch_file>>
                 ELSE RecordStep(history, "CallingTool", llm_response, results)
    /\ tool_argument_seen' = tool_argument(DefaultRegistry, CallsOf(llm_response)[tool_index])
    /\ UNCHANGED tool_vars
    /\ UNCHANGED <<agent, mode, history_before_execution, llm_response, stop_reason,
                   llm_calls, git_diff_seen>>

Next ==
    \/ NewTask
    \/ execute_task
    \/ execute_interactive_turn
    \/ LLMReturn
    \/ LLMFail
    \/ ToolReturn

Spec == Init /\ [][Next]_vars

\* every pending LLM call and tool call returns
FairSpec == Spec /\ WF_vars(LLMReturn) /\ WF_vars(ToolReturn)

(***************************************************************************)
(* fn_should_stop and fn_process_llm_response_for_completion called on     *)
(* their own (fn_should_stop as its unit tests call it): the arguments    *)
(* are drawn from the samples, the step number also beyond max_steps.      *)
(* fn_should_stop_interactive and execute_tool_call likewise.              *)
(***************************************************************************)
ToolCallRequests ==
    {ToolCall(id, name, arguments) :
         id \in {1, 2}, name \in {BashName, TaskDoneName, UnknownToolName},
         arguments \in ArgumentTexts}

\* the sample responses, and one response for every sample request
PolicyResponses ==
    {WithIds(template, 1) : template \in LLMResponses}
        \cup {[content |-> None, tool_calls |-> Some(<<request>>)] :
                  request \in ToolCallRequests}

PolicyInit ==
    /\ pc = "policy"
    /\ mode = "batch"
    /\ current_task = None
    /\ conversation_history = <<>>
    /\ max_steps \in 1..MaxStepsBound
    /\ project_path \in {None, Some(TxtPath)}
    /\ base_commit = None
    /\ patch_path = None
    /\ must_patch \in BOOLEAN
    /\ step_number \in 1..(MaxStepsBound + 1)
    /\ llm_request = <<>>
    /\ llm_response \in PolicyResponses
    /\ stop_reason = StopReason("None")
    /\ tool_index = 0
    /\ step_tool_results = <<>>
    /\ execution = NoExecution
    /\ history_before_execution = <<>>
    /\ llm_calls = 0
    /\ git_diff_seen = None
    /\ tool_argument_seen = None
    /\ result = NoResult
    /\ patch_file = None
    /\ ExecutorIdle
    /\ BashIdle
    /\ EditIdle
    /\ MoreIdle

\* TraeAgent::fn_should_stop(&llm_response, step, max_steps, must_patch, project_path, base_commit)
CallShouldStop ==
    /\ pc = "policy"
    /\ pc' = "policy_answered"
    /\ LET asks == AsksGitDiff(llm_response, step_number, max_steps, must_patch, project_path)
       IN \E git_diff \in (IF asks THEN GitDiffResults ELSE {GitErr(GitErrText)}) :
              /\ stop_reason' = fn_should_stop(llm_response, step_number, max_steps,
                                               must_patch, project_path, git_diff)
              /\ git_diff_seen' = IF asks THEN Some(git_diff) ELSE None
    /\ UNCHANGED <<agent, mode, conversation_history, step_number, llm_request, llm_response,
                   tool_index, step_tool_results, execution, history_before_execution,
                   llm_calls, tool_argument_seen, tool_vars, result, patch_file>>

\* TraeAgent::fn_process_llm_response_for_completion(&llm_response)
CallFinalMessage ==
    /\ pc = "policy"
    /\ pc' = "message_extracted"
    /\ execution' = [execution EXCEPT
                         !.final_result = fn_process_llm_response_for_completion(llm_response)]
    /\ UNCHANGED <<agent, mode, conversation_history, step_number, llm_request, llm_response,
                   stop_reason, tool_index, step_tool_results, history_before_execution,
                   llm_calls, git_diff_seen, tool_argument_seen, tool_vars, result, patch_file>>

\* TraeAgent::fn_should_stop_interactive(&llm_response, step, min(max_steps, 2))
CallShouldStopInteractive ==
    /\ pc = "policy"
    /\ pc' = "interactive_answered"
    /\ stop_reason' = fn_should_stop_interactive(llm_response, step_number, Min(max_steps, 2))
    /\ UNCHANGED <<agent, mode, conversation_history, step_number, llm_request, llm_response,
                   tool_index, step_tool_results, execution, history_before_execution,
                   llm_calls, git_diff_seen, tool_argument_seen, tool_vars, result, patch_file>>

\* ToolExecutor::execute_tool_call(&tool_call) for the i-th tool call of the
\* response, the tool's execute (if reached) returning outcome
ExecuteToolCallAt(i, outcome) ==
    /\ pc = "policy"
    /\ i \in 1..Len(CallsOf(llm_response))
    /\ outcome \in (IF ReachesOutcome(DefaultRegistry, CallsOf(llm_response)[i])
                    THEN ToolOutcomes ELSE {ExecErr(TxtExecFailed)})
    /\ pc' = "tool_executed"
    /\ tool_index' = i
    /\ step_tool_results' =
           <<execute_tool_call(DefaultRegistry, CallsOf(llm_response)[i], outcome)>>
    /\ tool_argument_seen' = tool_argument(DefaultRegistry, CallsOf(llm_response)[i])
    /\ UNCHANGED tool_vars
    /\ UNCHANGED <<agent, mode, conversation_history, step_number, llm_request, llm_response,
                   stop_reason, execution, history_before_execution, llm_calls,
                   git_diff_seen, result, patch_file>>

CallExecuteToolCall ==
    \E i \in 1..MaxCalls : \E outcome \in ToolOutcomes : ExecuteToolCallAt(i, outcome)

PolicyNext ==
    \/ CallShouldStop
    \/ CallFinalMessage
    \/ CallShouldStopInteractive
    \/ CallExecuteToolCall

PolicySpec == PolicyInit /\ [][PolicyNext]_vars

(***************************************************************************)
(* The tools on their own: the agent is not involved.                      *)
(***************************************************************************)
AgentAbsent ==
    /\ pc = "absent"
    /\ mode = "batch"
    /\ current_task = None
    /\ conversation_history = <<>>
    /\ max_steps = 1
    /\ project_path = None
    /\ base_commit = None
    /\ patch_path = None
    /\ must_patch = FALSE
    /\ step_number = 0
    /\ llm_request = <<>>
    /\ llm_response = NoResponse
    /\ stop_reason = StopReason("None")
    /\ tool_index = 0
    /\ step_tool_results = <<>>
    /\ execution = NoExecution
    /\ history_before_execution = <<>>
    /\ llm_calls = 0
    /\ git_diff_seen = None
    /\ tool_argument_seen = None
    /\ result = NoResult
    /\ patch_file = None

(***************************************************************************)
(* ToolExecutor::parallel_tool_calls and sequential_tool_calls             *)
(* (tools/base.rs).  Both are called on the same slice of tool calls; the  *)
(* execute of the tool of call i returns batch_outcomes[i] whenever it is  *)
(* called (the tools do not interfere).  join_all polls the futures of     *)
(* the calls, which finish in any order, and resolves when all have.       *)
(***************************************************************************)
\* the longest slice of tool calls
MaxBatch == 3

\* the requests of a slice: name and argument text, the id is the position
BatchRequests ==
    {Call(BashName, ArgsCommand), Call(TaskDoneName, ArgsSummaryOk), Call(BashName, ArgsArray)}

BatchesOfLen(n) ==
    {[i \in 1..n |-> ToolCall(i, t[i].name, t[i].arguments)] : t \in [1..n -> BatchRequests]}

\* one outcome per call; calls that do not reach a tool's execute have none
OutcomesFor(calls) ==
    {o \in [1..Len(calls) -> ToolOutcomes] :
         \A i \in 1..Len(calls) :
             ~ReachesOutcome(DefaultRegistry, calls[i]) => o[i] = ExecErr(TxtExecFailed)}

\* the result of self.execute_tool_call(call) for the i-th call of the slice
BatchResult(i) == execute_tool_call(DefaultRegistry, batch_calls[i], batch_outcomes[i])

ExecutorInit ==
    /\ AgentAbsent
    /\ MoreIdle
    /\ BashIdle
    /\ EditIdle
    /\ batch_pc = "idle"
    /\ batch_calls \in UNION {BatchesOfLen(n) : n \in 0..MaxBatch}
    /\ batch_outcomes \in OutcomesFor(batch_calls)
    /\ finish_order = <<>>
    /\ join_slots = <<>>
    /\ seq_results = <<>>
    /\ parallel_output = None
    /\ sequential_output = None

\* let futures = tool_calls.iter().map(|call| self.execute_tool_call(call))
ParallelStart ==
    /\ batch_pc = "idle"
    /\ parallel_output = None
    /\ batch_pc' = "parallel"
    /\ join_slots' = [i \in 1..Len(batch_calls) |-> None]
    /\ finish_order' = <<>>
    /\ UNCHANGED <<batch_calls, batch_outcomes, seq_results, parallel_output,
                   sequential_output, agent_vars, more_vars, bash_vars, edit_vars>>

\* the future of call i finishes; join_all keeps its output in slot i
FutureFinishes(i) ==
    /\ batch_pc = "parallel"
    /\ i \in 1..Len(batch_calls)
    /\ IsNone(join_slots[i])
    /\ join_slots' = [join_slots EXCEPT ![i] = Some(BatchResult(i))]
    /\ finish_order' = Append(finish_order, i)
    /\ UNCHANGED <<batch_pc, batch_calls, batch_outcomes, seq_results, parallel_output,
                   sequential_output, agent_vars, more_vars, bash_vars, edit_vars>>

\* a join that hands out the outputs in the order the futures finished
JoinAllFinishOrder(slots, order) == [i \in 1..Len(slots) |-> Unwrap(slots[order[i]])]

\* futures::future::join_all: the outputs in the order of the futures
JoinAll(slots, order) == [i \in 1..Len(slots) |-> Unwrap(slots[i])]

\* join_all(futures).await resolves: every future has finished
ParallelReturn ==
    /\ batch_pc = "parallel"
    /\ \A i \in 1..Len(batch_calls) : IsSome(join_slots[i])
    /\ batch_pc' = "idle"
    /\ parallel_output' = Some(JoinAll(join_slots, finish_order))
    /\ UNCHANGED <<batch_calls, batch_outcomes, finish_order, join_slots, seq_results,
                   sequential_output, agent_vars, more_vars, bash_vars, edit_vars>>

\* let mut results = Vec::new()
SequentialStart ==
    /\ batch_pc = "idle"
    /\ sequential_output = None
    /\ batch_pc' = "sequential"
    /\ seq_results' = <<>>
    /\ UNCHANGED <<batch_calls, batch_outcomes, finish_order, join_slots, parallel_output,
                   sequential_output, agent_vars, more_vars, bash_vars, edit_vars>>

\* results.push(self.execute_tool_call(call).await) for the next call
SequentialStep ==
    /\ batch_pc = "sequential"
    /\ Len(seq_results) < Len(batch_calls)
    /\ seq_results' = Append(seq_results, BatchResult(Len(seq_results) + 1))
    /\ UNCHANGED <<batch_pc, batch_calls, batch_outcomes, finish_order, join_slots,
                   parallel_output, sequential_output, agent_vars, more_vars, bash_vars, edit_vars>>

\* the loop is over: results is returned
SequentialReturn ==
    /\ batch_pc = "sequential"
    /\ Len(seq_results) = Len(batch_calls)
    /\ batch_pc' = "idle"
    /\ sequential_output' = Some(seq_results)
    /\ UNCHANGED <<batch_calls, batch_outcomes, finish_order, join_slots, seq_results,
                   parallel_output, agent_vars, more_vars, bash_vars, edit_vars>>

ExecutorNext ==
    \/ ParallelStart
    \/ \E i \in 1..MaxBatch : FutureFinishes(i)
    \/ ParallelReturn
    \/ SequentialStart
    \/ SequentialStep
    \/ SequentialReturn

ExecutorSpec == ExecutorInit /\ [][ExecutorNext]_vars

(***************************************************************************)
(* BashTool (trae_agent_rs tools/bash_tool.rs).  The output of a process   *)
(* can be long, so a text is kept here as a list of runs, a run being a    *)
(* piece of text (a list of characters) repeated n times; lengths and      *)
(* positions are in bytes of the UTF-8 encoding, as String's are.          *)
(***************************************************************************)
MAX_BASH_OUTPUT_LEN == 16000

TRUNCATED_BASH_MESSAGE ==
    <<"<","r","e","s","p","o","n","s","e"," ","c","l","i","p","p","e","d",">","<","N","O",
      "T","E",">","T","o"," ","s","a","v","e"," ","o","n"," ","c","o","n","t","e","x","t",
      " ","o","n","l","y"," ","p","a","r","t"," ","o","f"," ","t","h","i","s"," ","o","u",
      "t","p","u","t"," ","h","a","s"," ","b","e","e","n"," ","s","h","o","w","n","."," ",
      "Y","o","u"," ","m","i","g","h","t"," ","w","a","n","t"," ","t","o"," ","u","s","e",
      " ","f","i","l","e"," ","r","e","d","i","r","e","c","t","i","o","n"," ","o","r"," ",
      "m","o","r","e"," ","s","p","e","c","i","f","i","c"," ","c","o","m","m","a","n","d",
      "s"," ","t","o"," ","m","a","n","a","g","e"," ","l","a","r","g","e"," ","o","u","t",
      "p","u","t","s",".","<","/","N","O","T","E",">">>

Run(piece, n) == [piece |-> piece, n |-> n]

\* a text that is one literal
Literal(chars) == <<Run(chars, 1)>>

\* char::len_utf8 of the characters the sample outputs are made of
len_utf8(c) == IF c = "é" THEN 2 ELSE IF c = "€" THEN 3 ELSE 1

\* the bytes of the first j characters of a piece
PieceBytes(piece, j) ==
    LET of_width(w) == Cardinality({i \in 1..j : len_utf8(piece[i]) = w})
    IN of_width(1) + 2 * of_width(2) + 3 * of_width(3)

RunBytes(run) == run.n * PieceBytes(run.piece, Len(run.piece))

\* String::len
RECURSIVE len(_)
len(text) == IF text = <<>> THEN 0 ELSE RunBytes(Head(text)) + len(Tail(text))

\* whether a character of the piece starts at the byte offset (or the piece ends there)
PieceBoundary(piece, offset) == \E j \in 0..Len(piece) : PieceBytes(piece, j) = offset

\* str::is_char_boundary
RECURSIVE is_char_boundary(_, _)
is_char_boundary(text, index) ==
    IF index = 0 THEN TRUE
    ELSE IF text = <<>> THEN FALSE
    ELSE IF index >= RunBytes(Head(text))
         THEN is_char_boundary(Tail(text), index - RunBytes(Head(text)))
         ELSE PieceBoundary(Head(text).piece, index % PieceBytes(Head(text).piece,
                                                                 Len(Head(text).piece)))

\* the first bytes of a run, the offset being a character boundary inside it
RunPrefix(run, offset) ==
    LET piece_len == PieceBytes(run.piece, Len(run.piece))
        whole == offset \div piece_len
        j == CHOOSE k \in 0..Len(run.piece) : PieceBytes(run.piece, k) = offset % piece_len
    IN (IF whole > 0 THEN <<Run(run.piece, whole)>> ELSE <<>>)
           \o (IF j > 0 THEN <<Run(SubSeq(run.piece, 1, j), 1)>> ELSE <<>>)

\* the text String::truncate(new_len) leaves, new_len being a character boundary
RECURSIVE Truncated(_, _)
Truncated(text, new_len) ==
    IF new_len = 0 \/ text = <<>> THEN <<>>
    ELSE IF new_len >= RunBytes(Head(text))
         THEN <<Head(text)>> \o Truncated(Tail(text), new_len - RunBytes(Head(text)))
         ELSE RunPrefix(Head(text), new_len)

Panic == [panic |-> TRUE, text |-> <<>>]

Returned(text) == [panic |-> FALSE, text |-> text]

\* String::truncate: no effect when new_len is beyond the end, a panic when
\* new_len is not on a character boundary
truncate(text, new_len) ==
    IF new_len > len(text) THEN Returned(text)
    ELSE IF ~is_char_boundary(text, new_len) THEN Panic
    ELSE Returned(Truncated(text, new_len))

\* usize::saturating_sub
saturating_sub(a, b) == IF a > b THEN a - b ELSE 0

\* BashTool::maybe_truncate
maybe_truncate(content) ==
    IF len(content) > MAX_BASH_OUTPUT_LEN
    THEN IF len(Literal(TRUNCATED_BASH_MESSAGE)) >= MAX_BASH_OUTPUT_LEN
         THEN truncate(content, MAX_BASH_OUTPUT_LEN)
         ELSE LET content_len_to_keep ==
                      saturating_sub(MAX_BASH_OUTPUT_LEN, len(Literal(TRUNCATED_BASH_MESSAGE)))
                  truncated == truncate(content, content_len_to_keep)
              IN IF truncated.panic THEN Panic
                 ELSE Returned(truncated.text \o Literal(TRUNCATED_BASH_MESSAGE))
    ELSE Returned(content)

TxtStdoutHead ==
    <<"S","T","D","O","U","T",":","\n">>

TxtStderrHead ==
    <<"\n","S","T","D","E","R","R",":","\n">>

TxtExitedWith ==
    <<"C","o","m","m","a","n","d"," ","e","x","i","t","e","d"," ","w","i","t","h"," ","s",
      "t","a","t","u","s",":"," ">>

TxtCommandQuote ==
    <<"C","o","m","m","a","n","d"," ","'">>

TxtTimedOutAfter ==
    <<"'"," ","t","i","m","e","d"," ","o","u","t"," ","a","f","t","e","r"," ">>

TxtSeconds ==
    <<" ","s","e","c","o","n","d","s",".">>

TxtInvalidArgsBash ==
    <<"I","n","v","a","l","i","d"," ","a","r","g","u","m","e","n","t","s"," ","f","o","r",
      " ","t","o","o","l"," ","'","b","a","s","h","'",":"," ","F","a","i","l","e","d"," ",
      "t","o"," ","p","a","r","s","e"," ","a","r","g","u","m","e","n","t","s">>

TxtCommandEmpty ==
    <<"I","n","v","a","l","i","d"," ","a","r","g","u","m","e","n","t","s"," ","f","o","r",
      " ","t","o","o","l"," ","'","b","a","s","h","'",":"," ","C","o","m","m","a","n","d",
      " ","c","a","n","n","o","t"," ","b","e"," ","e","m","p","t","y",".">>

TxtSpawnFailed ==
    <<"T","o","o","l"," ","e","x","e","c","u","t","i","o","n"," ","f","a","i","l","e","d",
      ":"," ","F","a","i","l","e","d"," ","t","o"," ","s","p","a","w","n"," ","c","o","m",
      "m","a","n","d">>

TxtWaitFailed ==
    <<"T","o","o","l"," ","e","x","e","c","u","t","i","o","n"," ","f","a","i","l","e","d",
      ":"," ","C","o","m","m","a","n","d"," ","e","x","e","c","u","t","i","o","n"," ","f",
      "a","i","l","e","d">>

\* u64 and i32 as {} prints them
RECURSIVE Decimal(_)
Decimal(n) ==
    IF n < 10 THEN <<(<<"0","1","2","3","4","5","6","7","8","9">>)[n + 1]>>
    ELSE Decimal(n \div 10) \o Decimal(n % 10)

\* format!("{:?}", output.status.code())
DebugCode(code) ==
    IF IsSome(code) THEN <<"S","o","m","e","(">> \o Decimal(Unwrap(code)) \o <<")">>
    ELSE <<"N","o","n","e">>

\* format!("STDOUT:\n{}\nSTDERR:\n{}", stdout, stderr)
combined_output(stdout, stderr) ==
    Literal(TxtStdoutHead) \o stdout \o Literal(TxtStderrHead) \o stderr

\* the ToolExecResult of a timeout
TimedOut(args) ==
    ExecOk(None,
           Some(TxtCommandQuote \o Unwrap(args.command) \o TxtTimedOutAfter
                    \o Decimal(Unwrap(args.timeout)) \o TxtSeconds),
           124)

\* the ToolExecResult of a process that was waited for; code is
\* output.status.code(), None for a process ended by a signal
Finished(stdout, stderr, code) ==
    ExecOk(Some(combined_output(stdout, stderr)),
           IF code = Some(0) THEN None ELSE Some(TxtExitedWith \o DebugCode(code)),
           IF IsSome(code) THEN Unwrap(code) ELSE 1)

\* the arguments of the sample calls: command is None when the JSON has none
BashArgsSamples ==
    {[command |-> command, timeout |-> timeout] :
         command \in {None, Some(ArgsBlank), Some(TxtLs)}, timeout \in {None, Some(1), Some(2)}}

\* what the sample processes write
StreamA(n) == <<Run(<<"a">>, n)>>

StdoutContents ==
    {<<>>, StreamA(5), StreamA(MAX_BASH_OUTPUT_LEN), StreamA(MAX_BASH_OUTPUT_LEN + 1),
     <<Run(<<"é">>, 9000)>>, <<Run(<<"a">>, 15819), Run(<<"é">>, 100)>>}

StderrContents ==
    {<<>>, StreamA(MAX_BASH_OUTPUT_LEN + 1)}

\* what child.wait_with_output() resolves to: Ok(output), or Err for an I/O error
WaitOutputs ==
    {[ok |-> TRUE, stdout |-> stdout, stderr |-> stderr, code |-> code] :
         stdout \in StdoutContents, stderr \in StderrContents,
         code \in {Some(0), Some(3), None}}
        \cup {[ok |-> FALSE, stdout |-> <<>>, stderr |-> <<>>, code |-> None]}

BashInit ==
    /\ AgentAbsent
    /\ MoreIdle
    /\ ExecutorIdle
    /\ EditIdle
    /\ BashIdle

\* execute up to the wait: the arguments, cmd.spawn(), the timeout
BashExecute(args) ==
    /\ bash_pc = "idle"
    /\ bash_args' = Some(args)
    /\ IF IsNone(args.command)
       THEN /\ bash_pc' = "returned"
            /\ bash_result' = Some(ExecErr(TxtInvalidArgsBash))
            /\ UNCHANGED <<child, timer>>
       ELSE IF TrimIsEmpty(Unwrap(args.command))
       THEN /\ bash_pc' = "returned"
            /\ bash_result' = Some(ExecErr(TxtCommandEmpty))
            /\ UNCHANGED <<child, timer>>
       ELSE \E spawned \in BOOLEAN :
                IF spawned
                THEN /\ bash_pc' = "waiting"
                     /\ child' = "running"
                     /\ timer' = IF IsSome(args.timeout) THEN "armed" ELSE "none"
                     /\ UNCHANGED bash_result
                ELSE /\ bash_pc' = "returned"
                     /\ bash_result' = Some(ExecErr(TxtSpawnFailed))
                     /\ UNCHANGED <<child, timer>>
    /\ UNCHANGED <<child_output, bash_streams, elapsed_while_running, agent_vars, more_vars,
                   executor_vars, edit_vars>>

\* the sh process ends, or waiting for it fails
ChildExits ==
    /\ bash_pc = "waiting"
    /\ child = "running"
    /\ child' = "exited"
    /\ \E output \in WaitOutputs : child_output' = Some(output)
    /\ UNCHANGED <<bash_pc, bash_args, timer, bash_streams, bash_result,
                   elapsed_while_running, agent_vars, more_vars, executor_vars, edit_vars>>

\* the duration of the timeout is over
TimerElapses ==
    /\ bash_pc = "waiting"
    /\ timer = "armed"
    /\ timer' = "elapsed"
    /\ elapsed_while_running' = (child = "running")
    /\ UNCHANGED <<bash_pc, bash_args, child, child_output, bash_streams, bash_result,
                   agent_vars, more_vars, executor_vars, edit_vars>>

\* a poll that looks at the timer before the future
timeout_poll_timer_first(child_state, timer_state) ==
    IF timer_state = "elapsed" THEN "elapsed"
    ELSE IF child_state = "exited" THEN "ready"
    ELSE "pending"

\* the poll of tokio::time::timeout(duration, child.wait_with_output()), and
\* of child.wait_with_output() alone when there is no timer: the future is
\* polled first, the timer after it
timeout_poll(child_state, timer_state) ==
    IF child_state = "exited" THEN "ready"
    ELSE IF timer_state = "elapsed" THEN "elapsed"
    ELSE "pending"

\* execute from the wait on: the task is polled with the wait over
BashReturn ==
    /\ bash_pc = "waiting"
    /\ timeout_poll(child, timer) # "pending"
    /\ timer' = "none"
    /\ IF timeout_poll(child, timer) = "elapsed"
       THEN /\ bash_pc' = "returned"
            /\ bash_result' = Some(TimedOut(Unwrap(bash_args)))
            /\ child' = IF child = "running" THEN "killed" ELSE child
            /\ UNCHANGED bash_streams
       ELSE /\ UNCHANGED child
            /\ LET output == Unwrap(child_output)
                   stdout == maybe_truncate(output.stdout)
                   stderr == maybe_truncate(output.stderr)
               IN IF ~output.ok
                  THEN /\ bash_pc' = "returned"
                       /\ bash_result' = Some(ExecErr(TxtWaitFailed))
                       /\ UNCHANGED bash_streams
                  ELSE IF stdout.panic \/ stderr.panic
                  THEN /\ bash_pc' = "panicked"
                       /\ UNCHANGED <<bash_result, bash_streams>>
                  ELSE /\ bash_pc' = "returned"
                       /\ bash_streams' = Some([stdout |-> stdout.text, stderr |-> stderr.text])
                       /\ bash_result' = Some(Finished(stdout.text, stderr.text, output.code))
    /\ UNCHANGED <<bash_args, child_output, elapsed_while_running, agent_vars, more_vars,
                   executor_vars, edit_vars>>

BashNext ==
    \/ \E args \in BashArgsSamples : BashExecute(args)
    \/ ChildExits
    \/ TimerElapses
    \/ BashReturn

BashSpec == BashInit /\ [][BashNext]_vars

(***************************************************************************)
(* EditTool (trae-agent-rust tools/edit_tool.rs) on a file system of two   *)
(* files.  A file is None when absent, Some(content) otherwise.  The text  *)
(* that follows the first sentence of a success message (the numbered      *)
(* snippet) is left out, and so are directories and view with a range.     *)
(***************************************************************************)
TAB_WIDTH == 8

\* " ".repeat(n)
repeat_space(n) == [i \in 1..n |-> " "]

\* an expand_tabs that leaves the text as it is
expand_tabs_not(text) == text

\* EditTool::expand_tabs
RECURSIVE expand_tabs(_)
expand_tabs(text) ==
    IF text = <<>> THEN <<>>
    ELSE (IF Head(text) = "\t" THEN repeat_space(TAB_WIDTH) ELSE <<Head(text)>>)
             \o expand_tabs(Tail(text))

\* whether pat is at position i of text
MatchAt(text, pat, i) ==
    /\ i + Len(pat) - 1 <= Len(text)
    /\ SubSeq(text, i, i + Len(pat) - 1) = pat

\* str::matches(pat): the start positions of the matches from position i on,
\* found from left to right, each search starting after the match before it
RECURSIVE MatchStarts(_, _, _)
MatchStarts(text, pat, i) ==
    IF pat = <<>> THEN [k \in 1..(Len(text) + 2 - i) |-> i + k - 1]
    ELSE IF i + Len(pat) - 1 > Len(text) THEN <<>>
    ELSE IF MatchAt(text, pat, i) THEN <<i>> \o MatchStarts(text, pat, i + Len(pat))
    ELSE MatchStarts(text, pat, i + 1)

\* a count that stops at the first match
matches_count_first(text, pat) == IF MatchStarts(text, pat, 1) = <<>> THEN 0 ELSE 1

\* str::matches(pat).count()
matches_count(text, pat) == Len(MatchStarts(text, pat, 1))

\* a replace that deletes the matches
replace_deleting(text, from, to) ==
    LET starts == MatchStarts(text, from, 1)
        RECURSIVE Build(_, _)
        Build(k, i) ==
            IF k > Len(starts) THEN SubSeq(text, i, Len(text))
            ELSE SubSeq(text, i, starts[k] - 1) \o Build(k + 1, starts[k] + Len(from))
    IN Build(1, 1)

\* str::replace(from, to): every match replaced
replace(text, from, to) ==
    LET starts == MatchStarts(text, from, 1)
        RECURSIVE Build(_, _)
        Build(k, i) ==
            IF k > Len(starts) THEN SubSeq(text, i, Len(text))
            ELSE SubSeq(text, i, starts[k] - 1) \o to \o Build(k + 1, starts[k] + Len(from))
    IN Build(1, 1)

PathF ==
    <<"/","f">>

PathG ==
    <<"/","g">>

PathRel ==
    <<"f">>

TxtKeep ==
    <<"k","e","e","p">>

TxtEditInvalidPrefix ==
    <<"I","n","v","a","l","i","d"," ","a","r","g","u","m","e","n","t","s"," ","f","o","r",
      " ","t","o","o","l"," ","'","s","t","r","_","r","e","p","l","a","c","e","_","b","a",
      "s","e","d","_","e","d","i","t","_","t","o","o","l","'",":"," ">>

TxtMustBeAbsolute ==
    <<"'"," ","m","u","s","t"," ","b","e"," ","a","b","s","o","l","u","t","e",".">>

TxtPathQuote ==
    <<"P","a","t","h"," ","'">>

TxtToolQuote ==
    <<"T","o","o","l"," ","'">>

TxtPathSpace ==
    <<"P","a","t","h"," ">>

TxtDoesNotExistFor ==
    <<" ","d","o","e","s"," ","n","o","t"," ","e","x","i","s","t"," ","f","o","r"," ","c",
      "o","m","m","a","n","d"," ","'">>

TxtNotFoundTail ==
    <<"'",".","'"," ","n","o","t"," ","f","o","u","n","d">>

TxtExecFailedPrefix ==
    <<"T","o","o","l"," ","e","x","e","c","u","t","i","o","n"," ","f","a","i","l","e","d",
      ":"," ">>

TxtAlreadyExists ==
    <<"F","i","l","e"," ","a","l","r","e","a","d","y"," ","e","x","i","s","t","s"," ","a",
      "t",":"," ">>

\* the text goes on with the command name in backquotes
TxtCannotOverwrite ==
    <<"."," ","C","a","n","n","o","t"," ","o","v","e","r","w","r","i","t","e"," ","f","i",
      "l","e","s"," ","u","s","i","n","g"," ","c","o","m","m","a","n","d">>

TxtFileTextRequired ==
    <<"'","f","i","l","e","_","t","e","x","t","'"," ","i","s"," ","r","e","q","u","i","r",
      "e","d"," ","f","o","r"," ","'","c","r","e","a","t","e","'"," ","c","o","m","m","a",
      "n","d",".">>

TxtCreated ==
    <<"F","i","l","e"," ","c","r","e","a","t","e","d"," ","s","u","c","c","e","s","s","f",
      "u","l","l","y"," ","a","t",":"," ">>

TxtOldStrRequired ==
    <<"'","o","l","d","_","s","t","r","'"," ","i","s"," ","r","e","q","u","i","r","e","d",
      " ","f","o","r"," ","'","s","t","r","_","r","e","p","l","a","c","e","'">>

TxtPatternQuote ==
    <<"P","a","t","t","e","r","n"," ","'">>

TxtWithTabs ==
    <<"'"," ","(","w","i","t","h"," ","t","a","b","s"," ","e","x","p","a","n","d","e","d",
      " ","t","o"," ">>

TxtSpacesNotFound ==
    <<" ","s","p","a","c","e","s",")"," ","n","o","t"," ","f","o","u","n","d"," ","i","n",
      " ","f","i","l","e"," ">>

TxtSpacesFound ==
    <<" ","s","p","a","c","e","s",")"," ","f","o","u","n","d"," ">>

TxtTimesInFile ==
    <<" ","t","i","m","e","s"," ","i","n"," ","f","i","l","e"," ">>

TxtMustBeUnique ==
    <<"."," ","R","e","p","l","a","c","e","m","e","n","t"," ","m","u","s","t"," ","b","e",
      " ","u","n","i","q","u","e",".">>

TxtFileSpace ==
    <<"F","i","l","e"," ">>

TxtEdited ==
    <<" ","e","d","i","t","e","d"," ","s","u","c","c","e","s","s","f","u","l","l","y",".",
      " ">>

TxtInsertLineRequired ==
    <<"'","i","n","s","e","r","t","_","l","i","n","e","'"," ","(","1","-","i","n","d","e",
      "x","e","d",","," ","0"," ","f","o","r"," ","s","t","a","r","t",")"," ","i","s"," ",
      "r","e","q","u","i","r","e","d"," ","f","o","r"," ","'","i","n","s","e","r","t","'">>

TxtNewStrRequired ==
    <<"'","n","e","w","_","s","t","r","'"," ","i","s"," ","r","e","q","u","i","r","e","d",
      " ","f","o","r"," ","'","i","n","s","e","r","t","'">>

TxtInsertNegative ==
    <<"i","n","s","e","r","t","_","l","i","n","e"," ","m","u","s","t"," ","b","e"," ","n",
      "o","n","-","n","e","g","a","t","i","v","e"," ","(","0"," ","f","o","r"," ","b","e",
      "g","i","n","n","i","n","g",","," ","N"," ","f","o","r"," ","a","f","t","e","r"," ",
      "N","t","h"," ","l","i","n","e",")",".">>

TxtInsertLine ==
    <<"i","n","s","e","r","t","_","l","i","n","e"," ">>

TxtOutOfBounds ==
    <<" ","i","s"," ","o","u","t"," ","o","f"," ","b","o","u","n","d","s"," ","f","o","r",
      " ","f","i","l","e"," ","w","i","t","h"," ">>

TxtLinesMax ==
    <<" ","l","i","n","e","s","."," ","M","a","x"," ","v","a","l","i","d"," ","i","s"," ">>

TxtToAppend ==
    <<" ","(","t","o"," ","a","p","p","e","n","d",")",".">>

TxtInserted ==
    <<"T","e","x","t"," ","i","n","s","e","r","t","e","d"," ","i","n","t","o"," ">>

TxtUnknownCommand ==
    <<"U","n","k","n","o","w","n"," ","c","o","m","m","a","n","d",":"," ">>

TxtHereIs ==
    <<"H","e","r","e","'","s"," ","t","h","e"," ","c","o","n","t","e","n","t"," ","o","f",
      " ">>

CmdView ==
    <<"v","i","e","w">>

CmdCreate ==
    <<"c","r","e","a","t","e">>

CmdStrReplace ==
    <<"s","t","r","_","r","e","p","l","a","c","e">>

CmdInsert ==
    <<"i","n","s","e","r","t">>

CmdBogus ==
    <<"d","e","l","e","t","e">>

\* a call of execute ends: what it returns and the file system it leaves
EditOutcome(exec, fs) == [result |-> exec, files |-> fs]

\* ToolError::InvalidArguments, ExecutionFailed and NotFound as their texts
EditInvalidArguments(message) == ExecErr(TxtEditInvalidPrefix \o message)

EditExecutionFailed(message) == ExecErr(TxtExecFailedPrefix \o message)

EditNotFound(path, command_name) ==
    ExecErr(TxtToolQuote \o TxtPathSpace \o path \o TxtDoesNotExistFor \o command_name
                \o TxtNotFoundTail)

\* Path::is_absolute
is_absolute(path) == path # <<>> /\ path[1] = "/"

\* Path::exists
exists(fs, path) == path \in DOMAIN fs /\ IsSome(fs[path])

\* fs::write
write(fs, path, content) == [fs EXCEPT ![path] = Some(content)]

\* a validation that lets create overwrite
validate_path_exists_overwriting(fs, path, command_name) ==
    IF ~exists(fs, path) /\ command_name # CmdCreate
    THEN Some(EditNotFound(path, command_name))
    ELSE None

\* EditTool::validate_path_exists: None for Ok(()), Some(error) for Err
validate_path_exists(fs, path, command_name) ==
    IF ~exists(fs, path) /\ command_name # CmdCreate
    THEN Some(EditNotFound(path, command_name))
    ELSE IF exists(fs, path) /\ command_name = CmdCreate
    THEN Some(EditExecutionFailed(TxtAlreadyExists \o path \o TxtCannotOverwrite))
    ELSE None

\* format!("{:6}\t{}", number, line)
NumberedLine(number, line) ==
    (IF Len(Decimal(number)) < 6 THEN repeat_space(6 - Len(Decimal(number))) ELSE <<>>)
        \o Decimal(number) \o <<"\t">> \o line

\* EditTool::view_file without a view_range
view_file(fs, path) ==
    LET file_lines == Lines(expand_tabs(Unwrap(fs[path])))
        numbered_content ==
            JoinLines([i \in 1..Len(file_lines) |-> NumberedLine(i, file_lines[i])])
    IN EditOutcome(ExecOk(Some(TxtHereIs \o path \o <<":", "\n">> \o numbered_content), None, 0),
                   fs)

\* the "create" arm
create(fs, args) ==
    IF IsNone(args.file_text)
    THEN EditOutcome(EditInvalidArguments(TxtFileTextRequired), fs)
    ELSE EditOutcome(ExecOk(Some(TxtCreated \o args.path), None, 0),
                     write(fs, args.path, Unwrap(args.file_text)))

\* the "str_replace" arm
str_replace(fs, args) ==
    IF IsNone(args.old_str)
    THEN EditOutcome(EditInvalidArguments(TxtOldStrRequired), fs)
    ELSE LET old_s_raw == Unwrap(args.old_str)
             new_s_raw == IF IsSome(args.new_str) THEN Unwrap(args.new_str) ELSE <<>>
             old_s_expanded == expand_tabs(old_s_raw)
             new_s_expanded == expand_tabs(new_s_raw)
             content_expanded == expand_tabs(Unwrap(fs[args.path]))
             occurrences == matches_count(content_expanded, old_s_expanded)
             new_content_expanded == replace(content_expanded, old_s_expanded, new_s_expanded)
         IN IF occurrences = 0
            THEN EditOutcome(EditExecutionFailed(
                                 TxtPatternQuote \o old_s_raw \o TxtWithTabs
                                     \o Decimal(TAB_WIDTH) \o TxtSpacesNotFound \o args.path
                                     \o <<".">>),
                             fs)
            ELSE IF occurrences > 1
            THEN EditOutcome(EditExecutionFailed(
                                 TxtPatternQuote \o old_s_raw \o TxtWithTabs
                                     \o Decimal(TAB_WIDTH) \o TxtSpacesFound
                                     \o Decimal(occurrences) \o TxtTimesInFile \o args.path
                                     \o TxtMustBeUnique),
                             fs)
            ELSE EditOutcome(ExecOk(Some(TxtFileSpace \o args.path \o TxtEdited), None, 0),
                             write(fs, args.path, new_content_expanded))

\* the "insert" arm
insert(fs, args) ==
    IF IsNone(args.insert_line)
    THEN EditOutcome(EditInvalidArguments(TxtInsertLineRequired), fs)
    ELSE IF IsNone(args.new_str)
    THEN EditOutcome(EditInvalidArguments(TxtNewStrRequired), fs)
    ELSE IF Unwrap(args.insert_line) < 0
    THEN EditOutcome(EditInvalidArguments(TxtInsertNegative), fs)
    ELSE LET line_num_1_indexed == Unwrap(args.insert_line)
             new_lines_to_insert_expanded == Lines(expand_tabs(Unwrap(args.new_str)))
             lines_expanded == Lines(expand_tabs(Unwrap(fs[args.path])))
             true_insert_idx == line_num_1_indexed
         IN IF true_insert_idx > Len(lines_expanded)
            THEN EditOutcome(EditInvalidArguments(
                                 TxtInsertLine \o Decimal(line_num_1_indexed) \o TxtOutOfBounds
                                     \o Decimal(Len(lines_expanded)) \o TxtLinesMax
                                     \o Decimal(Len(lines_expanded)) \o TxtToAppend),
                             fs)
            ELSE EditOutcome(ExecOk(Some(TxtInserted \o args.path \o <<".", " ">>), None, 0),
                             write(fs, args.path,
                                   JoinLines(SubSeq(lines_expanded, 1, true_insert_idx)
                                                 \o new_lines_to_insert_expanded
                                                 \o SubSeq(lines_expanded, true_insert_idx + 1,
                                                           Len(lines_expanded)))))

\* EditTool::execute on the arguments parsed into EditToolArgs
edit_execute(fs, args) ==
    IF ~is_absolute(args.path)
    THEN EditOutcome(EditInvalidArguments(TxtPathQuote \o args.path \o TxtMustBeAbsolute), fs)
    ELSE IF IsSome(validate_path_exists(fs, args.path, args.command))
    THEN EditOutcome(Unwrap(validate_path_exists(fs, args.path, args.command)), fs)
    ELSE IF args.command = CmdView THEN view_file(fs, args.path)
    ELSE IF args.command = CmdCreate THEN create(fs, args)
    ELSE IF args.command = CmdStrReplace THEN str_replace(fs, args)
    ELSE IF args.command = CmdInsert THEN insert(fs, args)
    ELSE EditOutcome(EditInvalidArguments(TxtUnknownCommand \o args.command), fs)

\* the sample files and arguments
FileContents ==
    {<<>>, <<"a","\t","b">>, <<"a","a","a">>, <<"a","\n","b">>, <<"a","\n","b","\n">>,
     <<"a","\n","\n">>, <<"\t","a","\n","\t","a">>}

EditArgs(command, path, file_text, insert_line, new_str, old_str) ==
    [command |-> command, path |-> path, file_text |-> file_text,
     insert_line |-> insert_line, new_str |-> new_str, old_str |-> old_str]

EditPaths == {PathF, PathRel}

OldStrs ==
    {None, Some(<<>>), Some(<<"a">>), Some(<<"a","a">>), Some(<<"\t">>), Some(<<"x">>),
     Some(<<"a","\n">>)}

NewStrs ==
    {None, Some(<<>>), Some(<<"c">>), Some(<<"a","a">>), Some(<<"\t","c","\n","d">>),
     Some(<<"\n">>)}

InsertLines == {None, Some(-1), Some(0), Some(1), Some(2), Some(3)}

EditArgsSamples ==
    {EditArgs(command, path, None, None, None, None) :
         command \in {CmdView, CmdBogus}, path \in EditPaths}
        \cup {EditArgs(CmdCreate, path, file_text, None, None, None) :
                  path \in EditPaths \cup {PathG}, file_text \in {None, Some(<<"\t","a">>)}}
        \cup {EditArgs(CmdStrReplace, path, None, None, new_str, old_str) :
                  path \in EditPaths, new_str \in NewStrs, old_str \in OldStrs}
        \cup {EditArgs(CmdInsert, path, None, insert_line, new_str, None) :
                  path \in EditPaths, insert_line \in InsertLines, new_str \in NewStrs}

\* the file system before the call: /f absent or with a sample content, /g there
EditInit ==
    /\ AgentAbsent
    /\ MoreIdle
    /\ ExecutorIdle
    /\ BashIdle
    /\ files \in {(PathF :> content) @@ (PathG :> Some(TxtKeep)) :
                      content \in {None} \cup {Some(text) : text \in FileContents}}
    /\ edit_args = None
    /\ edit_result = None

\* one call of EditTool::execute
EditExecute(args) ==
    /\ edit_args = None
    /\ edit_args' = Some(args)
    /\ edit_result' = Some(edit_execute(files, args).result)
    /\ files' = edit_execute(files, args).files
    /\ UNCHANGED <<agent_vars, more_vars, executor_vars, bash_vars>>

EditNext == \E args \in EditArgsSamples : EditExecute(args)

EditSpec == EditInit /\ [][EditNext]_vars

(***************************************************************************)
(* JsonEditTool (tools/json_edit_tool.rs).  A JSON file is a text; a       *)
(* document is the serde_json::Value read from it.  Objects keep their     *)
(* members in the order of the text, as the expected file contents of the  *)
(* tests (json_edit_tool.rs:579-597) have them.  jsonpath_lib is not part  *)
(* of the sources: select, replace_with and delete are modelled by what    *)
(* the tests and comments of json_edit_tool.rs say of them, on paths whose *)
(* matches lie below the root and not inside one another.                  *)
(***************************************************************************)
RECURSIVE Flatten(_)
Flatten(seqs) == IF seqs = <<>> THEN <<>> ELSE Head(seqs) \o Flatten(Tail(seqs))

RECURSIVE JoinWith(_, _)
JoinWith(seqs, sep) ==
    IF seqs = <<>> THEN <<>>
    ELSE IF Len(seqs) = 1 THEN seqs[1]
    ELSE seqs[1] \o sep \o JoinWith(Tail(seqs), sep)

\* serde_json's escaping of the characters of a string
escape(s) ==
    Flatten([i \in 1..Len(s) |->
                 CASE s[i] = "\"" -> <<"\\", "\"">>
                   [] s[i] = "\\" -> <<"\\", "\\">>
                   [] s[i] = "\n" -> <<"\\", "n">>
                   [] OTHER -> <<s[i]>>])

Quoted(s) == <<"\"">> \o escape(s) \o <<"\"">>

\* serde_json::to_string
RECURSIVE to_string(_)
to_string(val) ==
    CASE val.t = "null" -> <<"n","u","l","l">>
      [] val.t = "string" -> Quoted(val.v)
      [] val.t = "array" ->
             <<"[">> \o JoinWith([i \in 1..Len(val.v) |-> to_string(val.v[i])], <<",">>)
                 \o <<"]">>
      [] val.t = "object" ->
             <<"{">> \o JoinWith([i \in 1..Len(val.v) |->
                                      Quoted(val.v[i][1]) \o <<":">> \o to_string(val.v[i][2])],
                                 <<",">>)
                 \o <<"}">>
      [] OTHER -> val.v

Indent(depth) == [i \in 1..(2 * depth) |-> " "]

\* serde_json::to_string_pretty: two spaces a level, one member or element a line
RECURSIVE pretty_at(_, _)
pretty_at(val, depth) ==
    CASE val.t = "array" /\ val.v # <<>> ->
             <<"[","\n">>
                 \o JoinWith([i \in 1..Len(val.v) |->
                                  Indent(depth + 1) \o pretty_at(val.v[i], depth + 1)],
                             <<",","\n">>)
                 \o <<"\n">> \o Indent(depth) \o <<"]">>
      [] val.t = "object" /\ val.v # <<>> ->
             <<"{","\n">>
                 \o JoinWith([i \in 1..Len(val.v) |->
                                  Indent(depth + 1) \o Quoted(val.v[i][1]) \o <<":"," ">>
                                      \o pretty_at(val.v[i][2], depth + 1)],
                             <<",","\n">>)
                 \o <<"\n">> \o Indent(depth) \o <<"}">>
      [] OTHER -> to_string(val)

to_string_pretty(val) == pretty_at(val, 0)

KName == <<"n","a","m","e">>

KItems == <<"i","t","e","m","s">>

KA == <<"a">>

KB == <<"b">>

KId == <<"i","d">>

KList == <<"l","i","s","t">>

KNonexistent == <<"n","o","n","e","x","i","s","t","e","n","t">>

KKey == <<"k","e","y">>

TxtTest == <<"t","e","s","t">>

\* {"name":"test"}
DocName == JObject(<< <<KName, JString(TxtTest)>> >>)

\* {"items":["a","b","c"]}
DocItems == JObject(<< <<KItems, JArray(<<JString(<<"a">>), JString(<<"b">>), JString(<<"c">>)>>)>> >>)

\* {"a":{"b":1},"name":"test"}
DocNested ==
    JObject(<< <<KA, JObject(<< <<KB, JNumber(<<"1">>)>> >>)>>, <<KName, JString(TxtTest)>> >>)

\* {"list":[{"id":1},{"id":2,"name":null}]}
DocList ==
    JObject(<< <<KList,
                 JArray(<<JObject(<< <<KId, JNumber(<<"1">>)>> >>),
                          JObject(<< <<KId, JNumber(<<"2">>)>>, <<KName, JNull>> >>)>>)>> >>)

Documents == {DocName, DocItems, DocNested, DocList}

\* texts of a file that is not a JSON document
TxtBlankFile == <<" ","\n">>

TxtBrokenJson == <<"{","\"","a","\"",":">>

\* the file before a call: a document written compactly or pretty, or no
\* document
JsonFileTexts ==
    {to_string(doc) : doc \in Documents} \cup {to_string_pretty(DocNested)}
        \cup {<<>>, TxtBlankFile, TxtBrokenJson}

Digits == {"0","1","2","3","4","5","6","7","8","9"}

\* the first position from i on that holds no white space, Len(s) + 1 when
\* there is none
RECURSIVE SkipWhite(_, _)
SkipWhite(s, i) ==
    IF i <= Len(s) /\ IsWhite(s[i]) THEN SkipWhite(s, i + 1)
    ELSE IF i <= Len(s) THEN i ELSE Len(s) + 1

\* the position of the quote that closes a string whose content starts at k,
\* 0 when there is none; a backslash takes the next character with it
RECURSIVE StringEnd(_, _)
StringEnd(s, k) ==
    IF k > Len(s) THEN 0
    ELSE IF s[k] = "\\" THEN StringEnd(s, k + 2)
    ELSE IF s[k] = "\"" THEN k
    ELSE StringEnd(s, k + 1)

\* the first position from k on that holds no digit
RECURSIVE DigitsEnd(_, _)
DigitsEnd(s, k) == IF k <= Len(s) /\ s[k] \in Digits THEN DigitsEnd(s, k + 1) ELSE k

\* the characters an escaped string stands for
RECURSIVE unescape(_)
unescape(s) ==
    IF s = <<>> THEN <<>>
    ELSE IF s[1] = "\\" /\ Len(s) >= 2
    THEN <<(IF s[2] = "n" THEN "\n" ELSE s[2])>> \o unescape(SubSeq(s, 3, Len(s)))
    ELSE <<s[1]>> \o unescape(Tail(s))

ParseFailed == [ok |-> FALSE, value |-> JNull, next |-> 0]

Parsed(val, next) == [ok |-> TRUE, value |-> val, next |-> next]

\* a string literal that starts with the quote at i
ParseString(s, i) ==
    LET close == StringEnd(s, i + 1)
    IN IF close = 0 THEN ParseFailed
       ELSE Parsed(JString(unescape(SubSeq(s, i + 1, close - 1))), close + 1)

\* the JSON value that starts at or after position i of s, and where it ends
RECURSIVE ParseValue(_, _)
RECURSIVE ParseElements(_, _, _)
RECURSIVE ParseMembers(_, _, _)
ParseValue(s, i) ==
    LET at == SkipWhite(s, i)
        Word(w) == at + Len(w) - 1 <= Len(s) /\ SubSeq(s, at, at + Len(w) - 1) = w
        after == DigitsEnd(s, at)
    IN IF at > Len(s) THEN ParseFailed
       ELSE CASE Word(<<"n","u","l","l">>) -> Parsed(JNull, at + 4)
              [] Word(<<"t","r","u","e">>) -> Parsed(JBool(TRUE), at + 4)
              [] Word(<<"f","a","l","s","e">>) -> Parsed(JBool(FALSE), at + 5)
              [] s[at] = "\"" -> ParseString(s, at)
              [] s[at] \in Digits -> Parsed(JNumber(SubSeq(s, at, after - 1)), after)
              [] s[at] = "[" ->
                     IF SkipWhite(s, at + 1) <= Len(s) /\ s[SkipWhite(s, at + 1)] = "]"
                     THEN Parsed(JArray(<<>>), SkipWhite(s, at + 1) + 1)
                     ELSE ParseElements(s, at + 1, <<>>)
              [] s[at] = "{" ->
                     IF SkipWhite(s, at + 1) <= Len(s) /\ s[SkipWhite(s, at + 1)] = "}"
                     THEN Parsed(JObject(<<>>), SkipWhite(s, at + 1) + 1)
                     ELSE ParseMembers(s, at + 1, <<>>)
              [] OTHER -> ParseFailed

ParseElements(s, i, elems) ==
    LET element == ParseValue(s, i)
        at == SkipWhite(s, element.next)
    IN IF ~element.ok \/ at > Len(s) THEN ParseFailed
       ELSE IF s[at] = "," THEN ParseElements(s, at + 1, Append(elems, element.value))
       ELSE IF s[at] = "]" THEN Parsed(JArray(Append(elems, element.value)), at + 1)
       ELSE ParseFailed

ParseMembers(s, i, members) ==
    LET start == SkipWhite(s, i)
        key == IF start <= Len(s) /\ s[start] = "\"" THEN ParseString(s, start)
               ELSE ParseFailed
        colon == SkipWhite(s, key.next)
        val == IF key.ok /\ colon <= Len(s) /\ s[colon] = ":" THEN ParseValue(s, colon + 1)
               ELSE ParseFailed
        at == SkipWhite(s, val.next)
        member == <<key.value.v, val.value>>
    IN IF ~val.ok \/ at > Len(s) THEN ParseFailed
       ELSE IF s[at] = "," THEN ParseMembers(s, at + 1, Append(members, member))
       ELSE IF s[at] = "}" THEN Parsed(JObject(Append(members, member)), at + 1)
       ELSE ParseFailed

\* serde_json::from_str::<Value>: None for a text that is not one JSON value
json_from_str(text) ==
    LET parsed == ParseValue(text, 1)
    IN IF parsed.ok /\ SkipWhite(text, parsed.next) > Len(text) THEN Some(parsed.value)
       ELSE None

\* one step of a JSONPath: .key, [index], [*] or ..key
Step(kind, key, index) == [kind |-> kind, key |-> key, index |-> index]

PathName == <<"$",".","n","a","m","e">>

PathItems1 == <<"$",".","i","t","e","m","s","[","1","]">>

PathItemsAll == <<"$",".","i","t","e","m","s","[","*","]">>

PathNonexistentKey ==
    <<"$",".","n","o","n","e","x","i","s","t","e","n","t",".","k","e","y">>

PathA == <<"$",".","a">>

PathAnyId == <<"$",".",".","i","d">>

PathBroken == <<"$","[">>

JsonPaths ==
    {PathName, PathItems1, PathItemsAll, PathNonexistentKey, PathA, PathAnyId, PathBroken}

\* SelectorMut::str_path on the paths above: the steps, None for a path that
\* does not parse
str_path(path) ==
    CASE path = PathName -> Some(<<Step("key", KName, 0)>>)
      [] path = PathItems1 -> Some(<<Step("key", KItems, 0), Step("index", <<>>, 1)>>)
      [] path = PathItemsAll -> Some(<<Step("key", KItems, 0), Step("wild", <<>>, 0)>>)
      [] path = PathNonexistentKey ->
             Some(<<Step("key", KNonexistent, 0), Step("key", KKey, 0)>>)
      [] path = PathA -> Some(<<Step("key", KA, 0)>>)
      [] path = PathAnyId -> Some(<<Step("desc", KId, 0)>>)
      [] OTHER -> None

HasMember(val, key) == val.t = "object" /\ \E i \in 1..Len(val.v) : val.v[i][1] = key

MemberIndex(val, key) == CHOOSE i \in 1..Len(val.v) : val.v[i][1] = key

\* the place of a node in its parent: a key of an object or an index of an array
Token(is_key, key, index) == [is_key |-> is_key, key |-> key, index |-> index]

\* the members or elements of a node, each with its place
Children(val) ==
    CASE val.t = "object" ->
             [i \in 1..Len(val.v) |-> <<Token(TRUE, val.v[i][1], 0), val.v[i][2]>>]
      [] val.t = "array" -> [i \in 1..Len(val.v) |-> <<Token(FALSE, <<>>, i - 1), val.v[i]>>]
      [] OTHER -> <<>>

Prefixed(token, paths) == [i \in 1..Len(paths) |-> <<token>> \o paths[i]]

\* the nodes a path matches, each as the places that lead to it from the
\* root, in document order
RECURSIVE select(_, _)
select(val, steps) ==
    IF steps = <<>> THEN << <<>> >>
    ELSE LET step == Head(steps)
             rest == Tail(steps)
             kids == Children(val)
             here == IF HasMember(val, step.key)
                     THEN Prefixed(Token(TRUE, step.key, 0),
                                   select(val.v[MemberIndex(val, step.key)][2], rest))
                     ELSE <<>>
         IN CASE step.kind = "key" -> here
              [] step.kind = "index" ->
                     IF val.t = "array" /\ step.index < Len(val.v)
                     THEN Prefixed(Token(FALSE, <<>>, step.index),
                                   select(val.v[step.index + 1], rest))
                     ELSE <<>>
              [] step.kind = "wild" ->
                     Flatten([i \in 1..Len(kids) |->
                                  Prefixed(kids[i][1], select(kids[i][2], rest))])
              [] OTHER ->
                     here \o Flatten([i \in 1..Len(kids) |->
                                          Prefixed(kids[i][1], select(kids[i][2], steps))])

\* a replacement that leaves the node as it is
replace_value_nothing(tokens, val, new) == val

\* the node at tokens replaced by new; nothing changes when the place is not
\* there
RECURSIVE replace_value(_, _, _)
replace_value(tokens, val, new) ==
    IF tokens = <<>> THEN val
    ELSE LET token == Head(tokens)
             Below(node) == IF Len(tokens) = 1 THEN new
                             ELSE replace_value(Tail(tokens), node, new)
         IN IF token.is_key /\ HasMember(val, token.key)
            THEN LET i == MemberIndex(val, token.key)
                 IN JObject([val.v EXCEPT ![i] = <<token.key, Below(val.v[i][2])>>])
            ELSE IF ~token.is_key /\ val.t = "array" /\ token.index < Len(val.v)
            THEN JArray([val.v EXCEPT ![token.index + 1] = Below(val.v[token.index + 1])])
            ELSE val

RECURSIVE ReplaceEach(_, _, _)
ReplaceEach(paths, val, new) ==
    IF paths = <<>> THEN val
    ELSE ReplaceEach(Tail(paths), replace_value(Head(paths), val, new), new)

\* SelectorMut::replace_with(|_| Some(new))
replace_with(val, steps, new) == ReplaceEach(select(val, steps), val, new)

\* a delete that takes the matched members and elements out
RECURSIVE delete_structurally(_, _)
delete_structurally(val, steps) ==
    IF Len(steps) = 1 /\ steps[1].kind = "key" /\ HasMember(val, steps[1].key)
    THEN JObject(SelectSeq(val.v, LAMBDA member : member[1] # steps[1].key))
    ELSE IF Len(steps) > 1 /\ steps[1].kind = "key" /\ HasMember(val, steps[1].key)
    THEN LET i == MemberIndex(val, steps[1].key)
         IN JObject([val.v EXCEPT
                         ![i] = <<steps[1].key, delete_structurally(val.v[i][2], Tail(steps))>>])
    ELSE IF Len(steps) = 1 /\ steps[1].kind = "index" /\ val.t = "array"
            /\ steps[1].index < Len(val.v)
    THEN JArray(SubSeq(val.v, 1, steps[1].index)
                    \o SubSeq(val.v, steps[1].index + 2, Len(val.v)))
    ELSE val

\* jsonpath_lib::delete: the matched nodes become null
delete(val, steps) == replace_with(val, steps, JNull)

OpView == <<"v","i","e","w">>

OpSet == <<"s","e","t">>

OpSetUpper == <<"S","E","T">>

OpAdd == <<"a","d","d">>

OpRemove == <<"r","e","m","o","v","e">>

OpBogus == <<"m","e","r","g","e">>

KOperation == <<"o","p","e","r","a","t","i","o","n">>

KFilePath == <<"f","i","l","e","_","p","a","t","h">>

KJsonPath == <<"j","s","o","n","_","p","a","t","h">>

KValue == <<"v","a","l","u","e">>

KPrettyPrint == <<"p","r","e","t","t","y","_","p","r","i","n","t">>

PathJson == <<"/","d",".","j","s","o","n">>

PathJsonRel == <<"d",".","j","s","o","n">>

\* an Option field of a derived Deserialize: a member that is absent or null
\* is None
OptionMember(arguments, key) ==
    LET member == JsonGet(arguments, key)
    IN IF IsNone(member) \/ is_null(Unwrap(member)) THEN None ELSE member

\* serde_json::from_value::<JsonEditToolArgs>: None when it fails
JsonEditToolArgs(arguments) ==
    LET operation == JsonGet(arguments, KOperation)
        file_path == JsonGet(arguments, KFilePath)
        json_path == OptionMember(arguments, KJsonPath)
        pretty_print == OptionMember(arguments, KPrettyPrint)
    IN IF \/ ~is_object(arguments)
          \/ IsNone(operation) \/ IsNone(file_path)
       THEN None
       ELSE IF \/ IsNone(as_str(Unwrap(operation)))
               \/ IsNone(as_str(Unwrap(file_path)))
               \/ IsSome(json_path) /\ IsNone(as_str(Unwrap(json_path)))
               \/ IsSome(pretty_print) /\ IsNone(as_bool(Unwrap(pretty_print)))
       THEN None
       ELSE Some([operation |-> Unwrap(as_str(Unwrap(operation))),
                  file_path |-> Unwrap(as_str(Unwrap(file_path))),
                  json_path |-> IF IsSome(json_path) THEN as_str(Unwrap(json_path)) ELSE None,
                  value |-> OptionMember(arguments, KValue),
                  pretty_print |-> IF IsSome(pretty_print) THEN as_bool(Unwrap(pretty_print))
                                   ELSE None])

\* Err(ToolError::<variant>) of JsonEditTool::execute; what names the check
\* that failed
JsonErr(variant, what) == [ok |-> FALSE, variant |-> variant, what |-> what, output |-> <<>>]

\* Ok(ToolExecResult::new_success(Some(output), None))
JsonOk(what, output) == [ok |-> TRUE, variant |-> "Ok", what |-> what, output |-> output]

JsonOutcome(exec, file, saved) == [result |-> exec, file |-> file, saved |-> saved]

\* JsonEditTool::load_json_file: Some(document), or the error
load_json_file(file, file_path) ==
    IF ~is_absolute(file_path) THEN JsonErr("InvalidArguments", "file path must be absolute")
    ELSE IF IsNone(file) THEN JsonErr("FileNotFound", "file")
    ELSE IF TrimIsEmpty(Unwrap(file)) THEN JsonErr("FileReadError", "file is empty")
    ELSE LET data == json_from_str(Unwrap(file))
         IN IF IsNone(data) THEN JsonErr("InvalidJson", "file")
            ELSE JsonOk("loaded", Unwrap(data))

\* JsonEditTool::save_json_file
save_json_file(data, pretty) == IF pretty THEN to_string_pretty(data) ELSE to_string(data)

\* execute, "view", from the loaded document on
view_loaded(loaded, args, pretty) ==
    LET data == loaded.output
        steps == str_path(Unwrap(args.json_path))
        matched == select(data, Unwrap(steps))
        RECURSIVE At(_, _)
        At(val, tokens) ==
            IF tokens = <<>> THEN val
            ELSE At(IF Head(tokens).is_key
                    THEN val.v[MemberIndex(val, Head(tokens).key)][2]
                    ELSE val.v[Head(tokens).index + 1],
                    Tail(tokens))
        results == [i \in 1..Len(matched) |-> At(data, matched[i])]
        shown == IF Len(results) = 1 THEN results[1] ELSE JArray(results)
    IN IF ~loaded.ok THEN loaded
       ELSE IF IsNone(args.json_path) THEN JsonOk("content", save_json_file(data, pretty))
       ELSE IF IsNone(steps) THEN JsonErr("InvalidArguments", "error selecting with JSONPath")
       ELSE IF results = <<>> THEN JsonOk("no matches", <<>>)
       ELSE JsonOk("matches", save_json_file(shown, pretty))

\* execute, "view"
json_view(file, args, pretty) ==
    view_loaded(load_json_file(file, args.file_path), args, pretty)

\* execute, "set" and "add", from the loaded document on
set_loaded(loaded, file, args, pretty) ==
    LET steps == str_path(Unwrap(args.json_path))
    IN IF ~loaded.ok THEN JsonOutcome(loaded, file, None)
       ELSE IF IsNone(steps)
       THEN JsonOutcome(JsonErr("InvalidArguments", "invalid JSONPath"), file, None)
       ELSE LET modified_data == replace_with(loaded.output, Unwrap(steps),
                                              Unwrap(args.value))
            IN JsonOutcome(JsonOk("applied", <<>>),
                           Some(save_json_file(modified_data, pretty)),
                           Some(modified_data))

\* execute, "set" and "add": operation is the name in the messages
json_set(file, args, pretty, operation) ==
    IF IsNone(args.json_path)
    THEN JsonOutcome(JsonErr("InvalidArguments", "'json_path' is required"), file, None)
    ELSE IF IsNone(args.value)
    THEN JsonOutcome(JsonErr("InvalidArguments", "'value' is required"), file, None)
    ELSE set_loaded(load_json_file(file, args.file_path), file, args, pretty)

\* execute, "remove", from the loaded document on
remove_loaded(loaded, file, args, pretty) ==
    LET steps == str_path(Unwrap(args.json_path))
    IN IF ~loaded.ok THEN JsonOutcome(loaded, file, None)
       ELSE IF IsNone(steps)
       THEN JsonOutcome(JsonErr("InternalError", "failed to apply 'remove'"), file, None)
       ELSE LET modified_data == delete(loaded.output, Unwrap(steps))
            IN JsonOutcome(JsonOk("applied", <<>>),
                           Some(save_json_file(modified_data, pretty)),
                           Some(modified_data))

\* execute, "remove"
json_remove(file, args, pretty) ==
    IF IsNone(args.json_path)
    THEN JsonOutcome(JsonErr("InvalidArguments", "'json_path' is required"), file, None)
    ELSE remove_loaded(load_json_file(file, args.file_path), file, args, pretty)

\* JsonEditTool::execute on the file and the arguments Value
json_execute(file, arguments) ==
    LET parsed == JsonEditToolArgs(arguments)
        args == Unwrap(parsed)
        pretty == IF IsSome(args.pretty_print) THEN Unwrap(args.pretty_print) ELSE TRUE
        operation == to_lowercase(args.operation)
    IN IF IsNone(parsed)
       THEN JsonOutcome(JsonErr("InvalidArguments", "failed to parse arguments"), file, None)
       ELSE CASE operation = OpView ->
                     IF ~is_absolute(args.file_path)
                     THEN JsonOutcome(JsonErr("InvalidArguments", "file path must be absolute"),
                                      file, None)
                     ELSE JsonOutcome(json_view(file, args, pretty), file, None)
              [] operation = OpSet -> json_set(file, args, pretty, OpSet)
              [] operation = OpAdd -> json_set(file, args, pretty, OpAdd)
              [] operation = OpRemove -> json_remove(file, args, pretty)
              [] OTHER ->
                     JsonOutcome(JsonErr("InvalidArguments", "unknown operation"), file, None)

\* the arguments of a call: an object with the members that are given
JsonArguments(operation, file_path, json_path, value, pretty_print) ==
    JObject(<< <<KOperation, JString(operation)>>, <<KFilePath, JString(file_path)>> >>
                \o (IF IsSome(json_path) THEN << <<KJsonPath, JString(Unwrap(json_path))>> >>
                    ELSE <<>>)
                \o (IF IsSome(value) THEN << <<KValue, Unwrap(value)>> >> ELSE <<>>)
                \o (IF IsSome(pretty_print)
                    THEN << <<KPrettyPrint, JBool(Unwrap(pretty_print))>> >>
                    ELSE <<>>))

\* "value": absent, null, a string, an object
JsonValues ==
    {None, Some(JNull), Some(JString(<<"x">>)),
     Some(JObject(<< <<KB, JNumber(<<"2">>)>> >>))}

JsonArgumentsSamples ==
    {JsonArguments(operation, file_path, json_path, value, pretty_print) :
         operation \in {OpView, OpSet, OpSetUpper, OpAdd, OpRemove, OpBogus},
         file_path \in {PathJson, PathJsonRel},
         json_path \in {None} \cup {Some(path) : path \in JsonPaths},
         value \in JsonValues,
         pretty_print \in {None, Some(FALSE)}}

JsonInit ==
    /\ AgentAbsent
    /\ ExecutorIdle
    /\ BashIdle
    /\ EditIdle
    /\ PatchIdle
    /\ RecorderIdle
    /\ EventIdle
    /\ json_file \in {None} \cup {Some(text) : text \in JsonFileTexts}
    /\ json_args = None
    /\ json_result = None
    /\ json_saved = None

\* one call of JsonEditTool::execute
JsonExecute(arguments) ==
    /\ json_args = None
    /\ json_args' = Some(arguments)
    /\ LET outcome == json_execute(json_file, arguments)
       IN /\ json_result' = Some(outcome.result)
          /\ json_file' = outcome.file
          /\ json_saved' = outcome.saved
    /\ UNCHANGED json_frame

JsonNext == \E arguments \in JsonArgumentsSamples : JsonExecute(arguments)

JsonSpec == JsonInit /\ [][JsonNext]_vars

(***************************************************************************)
(* remove_patches_to_tests (utils/git_utils.rs) called on diff texts: up   *)
(* to MaxPatchLines lines, each a diff --git header, a changed line or an  *)
(* empty line.  git writes a path with spaces into the header as it is.    *)
(***************************************************************************)
MaxPatchLines == 3

PathMainRs == <<"m",".","r","s">>

PathTestsPy == <<"t","e","s","t","s","/","t",".","p","y">>

\* docs/my test_plan.md: no test-file pattern matches it
PathPlanDoc ==
    <<"d","o","c","s","/","m","y"," ","t","e","s","t","_","p","l","a","n",".","m","d">>

\* x y z/test_q.py: the file name starts with test_
PathSpacedTest == <<"x"," ","y"," ","z","/","t","e","s","t","_","q",".","p","y">>

HeaderPaths == {PathMainRs, PathTestsPy, PathPlanDoc, PathSpacedTest}

\* the header git diff writes for a changed file
DiffHeader(path) == DiffGitPrefix \o path \o <<" ","b","/">> \o path

\* a header line without its paths
LineShortHeader == DiffGitPrefix \o <<"x">>

LineAdded == <<"+","x">>

PatchLines == {DiffHeader(path) : path \in HeaderPaths} \cup {LineShortHeader, LineAdded, <<>>}

PatchTexts ==
    {JoinLines(ls) : ls \in UNION {[1..n -> PatchLines] : n \in 0..MaxPatchLines}}

PatchInit ==
    /\ AgentAbsent
    /\ ExecutorIdle
    /\ BashIdle
    /\ EditIdle
    /\ JsonIdle
    /\ RecorderIdle
    /\ EventIdle
    /\ model_patch \in {Some(text) : text \in PatchTexts}
    /\ filtered = None
    /\ filtered_again = None

\* remove_patches_to_tests(model_patch)
FilterPatch ==
    /\ filtered = None
    /\ filtered' = Some(remove_patches_to_tests(Unwrap(model_patch)))
    /\ UNCHANGED <<model_patch, filtered_again, patch_frame>>

\* remove_patches_to_tests on what it returned
FilterAgain ==
    /\ IsSome(filtered)
    /\ filtered_again = None
    /\ filtered_again' = Some(remove_patches_to_tests(Unwrap(filtered)))
    /\ UNCHANGED <<model_patch, filtered, patch_frame>>

PatchNext == FilterPatch \/ FilterAgain

PatchSpec == PatchInit /\ [][PatchNext]_vars

(***************************************************************************)
(* The trajectory recorder.  A recording is a header, the steps recorded   *)
(* since it was started, and the outcome given when it is finalized; the   *)
(* recorder keeps at most one, and finalizing writes it, pretty-printed,   *)
(* over the file at trajectory_path.                                       *)
(***************************************************************************)
TRAJECTORY_VERSION == <<"1",".","0">>

KVersion == <<"v","e","r","s","i","o","n">>

KTask == <<"t","a","s","k">>

KProvider == <<"p","r","o","v","i","d","e","r">>

KModel == <<"m","o","d","e","l">>

KMaxSteps == <<"m","a","x","_","s","t","e","p","s">>

KTimestamp == <<"t","i","m","e","s","t","a","m","p">>

KExtraArgs == <<"e","x","t","r","a","_","a","r","g","s">>

KHeader == <<"h","e","a","d","e","r">>

KSteps == <<"s","t","e","p","s">>

KSuccess == <<"s","u","c","c","e","s","s">>

KFinalResult == <<"f","i","n","a","l","_","r","e","s","u","l","t">>

KTotalTokens == <<"t","o","t","a","l","_","t","o","k","e","n","s">>

KPromptTokens == <<"p","r","o","m","p","t","_","t","o","k","e","n","s">>

KCompletionTokens == <<"c","o","m","p","l","e","t","i","o","n","_","t","o","k","e","n","s">>

KStepNumber == <<"s","t","e","p","_","n","u","m","b","e","r">>

KStepError == <<"e","r","r","o","r">>

TrajectoryHeader(task, provider, model, limit, timestamp, extra_args) ==
    [version |-> TRAJECTORY_VERSION, task |-> task, provider |-> provider, model |-> model,
     max_steps |-> limit, timestamp |-> timestamp, extra_args |-> extra_args]

Trajectory(header, steps, success, final_result, total_tokens) ==
    [header |-> header, steps |-> steps, success |-> success,
     final_result |-> final_result, total_tokens |-> total_tokens]

LLMUsage(prompt_tokens, completion_tokens, total_tokens) ==
    [prompt_tokens |-> prompt_tokens, completion_tokens |-> completion_tokens,
     total_tokens |-> total_tokens]

\* the fields of an AgentStep that the recorder's test reads back
RecordedStep(number, error) == [step_number |-> number, error |-> error]

\* Serialize of an Option without skip_serializing_if: None is written as null
OptionValue(o, Value(_)) == IF IsSome(o) THEN Value(Unwrap(o)) ELSE JNull

NumberValue(n) == JNumber(Decimal(n))

\* the orders in which a HashMap of these entries can be iterated
Orderings(entries) ==
    {order \in [1..Cardinality(entries) -> entries] :
        \A i, j \in 1..Cardinality(entries) : order[i] = order[j] => i = j}

\* Serialize of a HashMap<String, String> iterated in the given order
map_value(order) == JObject([i \in 1..Len(order) |-> <<order[i][1], JString(order[i][2])>>])

usage_value(usage) ==
    JObject(<< <<KPromptTokens, NumberValue(usage.prompt_tokens)>>,
               <<KCompletionTokens, OptionValue(usage.completion_tokens, NumberValue)>>,
               <<KTotalTokens, NumberValue(usage.total_tokens)>> >>)

\* a serializer that leaves the error of a step out
step_value_no_error(step) ==
    JObject(<< <<KStepNumber, NumberValue(step.step_number)>>, <<KStepError, JNull>> >>)

step_value(step) ==
    JObject(<< <<KStepNumber, NumberValue(step.step_number)>>,
               <<KStepError, OptionValue(step.error, JString)>> >>)

header_value(header, order) ==
    JObject(<< <<KVersion, JString(header.version)>>,
               <<KTask, JString(header.task)>>,
               <<KProvider, JString(header.provider)>>,
               <<KModel, JString(header.model)>>,
               <<KMaxSteps, NumberValue(header.max_steps)>>,
               <<KTimestamp, NumberValue(header.timestamp)>>,
               <<KExtraArgs, IF IsSome(header.extra_args) THEN map_value(order) ELSE JNull>> >>)

\* derived Serialize of Trajectory: every field in declaration order
trajectory_value(recording, order) ==
    JObject(<< <<KHeader, header_value(recording.header, order)>>,
               <<KSteps, JArray([i \in 1..Len(recording.steps) |->
                                    step_value(recording.steps[i])])>>,
               <<KSuccess, JBool(recording.success)>>,
               <<KFinalResult, OptionValue(recording.final_result, JString)>>,
               <<KTotalTokens, OptionValue(recording.total_tokens, usage_value)>> >>)

\* the orders the entries of a recording's extra_args can be written in
ArgOrders(recording) ==
    IF IsSome(recording) /\ IsSome(Unwrap(recording).header.extra_args)
    THEN Orderings(Unwrap(Unwrap(recording).header.extra_args))
    ELSE {<<>>}

\* the result of deserializing: a value, or an error
DeOk(val) == [ok |-> TRUE, value |-> val]

DeErr == [ok |-> FALSE, value |-> <<>>]

RECURSIVE ToNat(_)
ToNat(digits) ==
    IF digits = <<>> THEN 0
    ELSE ToNat(SubSeq(digits, 1, Len(digits) - 1)) * 10
         + (CHOOSE d \in 0..9 : Decimal(d) = <<digits[Len(digits)]>>)

read_string(val) == IF val.t = "string" THEN DeOk(val.v) ELSE DeErr

read_number(val) == IF val.t = "number" THEN DeOk(ToNat(val.v)) ELSE DeErr

read_bool(val) == IF val.t = "bool" THEN DeOk(val = JBool(TRUE)) ELSE DeErr

\* Deserialize of a HashMap<String, String>: the last value of a repeated key
read_map(val) ==
    IF val.t = "object" /\ \A i \in 1..Len(val.v) : val.v[i][2].t = "string"
    THEN DeOk({<<val.v[i][1], val.v[i][2].v>> : i \in
                  {i \in 1..Len(val.v) :
                      \A j \in (i + 1)..Len(val.v) : val.v[j][1] # val.v[i][1]}})
    ELSE DeErr

\* a struct is read from an object that names none of its fields twice
IsStructOf(val, fields) ==
    /\ val.t = "object"
    /\ \A i, j \in 1..Len(val.v) :
          val.v[i][1] \in fields /\ val.v[i][1] = val.v[j][1] => i = j

\* a field that must be there
Required(val, key, Read(_)) ==
    IF IsSome(JsonGet(val, key)) THEN Read(Unwrap(JsonGet(val, key))) ELSE DeErr

\* an Option field: None when the member is missing or null
Optional(val, key, Read(_)) ==
    IF IsSome(JsonGet(val, key)) /\ ~is_null(Unwrap(JsonGet(val, key)))
    THEN LET inner == Read(Unwrap(JsonGet(val, key)))
         IN IF inner.ok THEN DeOk(Some(inner.value)) ELSE DeErr
    ELSE DeOk(None)

read_usage(val) ==
    LET prompt == Required(val, KPromptTokens, read_number)
        completion == Optional(val, KCompletionTokens, read_number)
        total == Required(val, KTotalTokens, read_number)
    IN IF IsStructOf(val, {KPromptTokens, KCompletionTokens, KTotalTokens})
          /\ prompt.ok /\ completion.ok /\ total.ok
       THEN DeOk(LLMUsage(prompt.value, completion.value, total.value))
       ELSE DeErr

read_step(val) ==
    LET number == Required(val, KStepNumber, read_number)
        error == Optional(val, KStepError, read_string)
    IN IF IsStructOf(val, {KStepNumber, KStepError}) /\ number.ok /\ error.ok
       THEN DeOk(RecordedStep(number.value, error.value))
       ELSE DeErr

read_steps(val) ==
    IF val.t = "array" /\ \A i \in 1..Len(val.v) : read_step(val.v[i]).ok
    THEN DeOk([i \in 1..Len(val.v) |-> read_step(val.v[i]).value])
    ELSE DeErr

read_header(val) ==
    LET version == Required(val, KVersion, read_string)
        task == Required(val, KTask, read_string)
        provider == Required(val, KProvider, read_string)
        model == Required(val, KModel, read_string)
        limit == Required(val, KMaxSteps, read_number)
        timestamp == Required(val, KTimestamp, read_number)
        extra_args == Optional(val, KExtraArgs, read_map)
    IN IF IsStructOf(val, {KVersion, KTask, KProvider, KModel, KMaxSteps, KTimestamp,
                           KExtraArgs})
          /\ version.ok /\ task.ok /\ provider.ok /\ model.ok /\ limit.ok
          /\ timestamp.ok /\ extra_args.ok
       THEN DeOk([version |-> version.value, task |-> task.value,
                  provider |-> provider.value, model |-> model.value,
                  max_steps |-> limit.value, timestamp |-> timestamp.value,
                  extra_args |-> extra_args.value])
       ELSE DeErr

\* derived Deserialize of Trajectory
read_trajectory(val) ==
    LET header == Required(val, KHeader, read_header)
        steps == Required(val, KSteps, read_steps)
        success == Required(val, KSuccess, read_bool)
        final_result == Optional(val, KFinalResult, read_string)
        total_tokens == Optional(val, KTotalTokens, read_usage)
    IN IF IsStructOf(val, {KHeader, KSteps, KSuccess, KFinalResult, KTotalTokens})
          /\ header.ok /\ steps.ok /\ success.ok /\ final_result.ok /\ total_tokens.ok
       THEN DeOk(Trajectory(header.value, steps.value, success.value, final_result.value,
                            total_tokens.value))
       ELSE DeErr

\* serde_json::from_str::<Trajectory> on the text of a file
trajectory_from_str(text) ==
    IF IsSome(json_from_str(text)) THEN read_trajectory(Unwrap(json_from_str(text)))
    ELSE DeErr

\* what opening and writing the file can come to
IoOk == "written"

IoOpenFailed == "open failed"

IoWriteFailed == "write failed"

IoOutcomes == {IoOk, IoOpenFailed, IoWriteFailed}

\* a finalize_recording that always records success
finalize_recording_as_success(current, file, success, final_result, total_tokens, io, order) ==
    IF IsSome(current) /\ io = IoOk
    THEN LET finished == [Unwrap(current) EXCEPT !.success = TRUE,
                                                 !.final_result = final_result,
                                                 !.total_tokens = total_tokens]
         IN [ok |-> TRUE,
             file |-> Some(to_string_pretty(trajectory_value(finished, order))),
             written |-> Some(finished)]
    ELSE [ok |-> IsSome(current) => io = IoOk,
          file |-> IF IsSome(current) /\ io = IoWriteFailed THEN Some(<<>>) ELSE file,
          written |-> None]

\* finalize_recording on the recording `current`: whether it returns Ok, the
\* file afterwards and the record it serialized.  The recording is taken out
\* of the recorder before the file is opened.
finalize_recording(current, file, success, final_result, total_tokens, io, order) ==
    IF IsSome(current)
    THEN LET finished == [Unwrap(current) EXCEPT !.success = success,
                                                 !.final_result = final_result,
                                                 !.total_tokens = total_tokens]
         IN CASE io = IoOk ->
                     [ok |-> TRUE,
                      file |-> Some(to_string_pretty(trajectory_value(finished, order))),
                      written |-> Some(finished)]
              [] io = IoOpenFailed -> [ok |-> FALSE, file |-> file, written |-> None]
              [] io = IoWriteFailed -> [ok |-> FALSE, file |-> Some(<<>>), written |-> None]
    ELSE [ok |-> TRUE, file |-> file, written |-> None]

\* the outcomes that differ for the recording at hand
IoFor(current) == IF IsSome(current) THEN IoOutcomes ELSE {IoOk}

TxtProvider == <<"t","e","s","t","_","p","r","o","v","i","d","e","r">>

TxtModel == <<"t","e","s","t","-","m","o","d","e","l">>

TxtQuotedTask == <<"f","i","x"," ","\"","a","\\","b","\"","\n","n","o","w">>

TxtResult == <<"T","a","s","k"," ","c","o","m","p","l","e","t","e","d"," ","s","u","c","c","e","s","s","f","u","l","l","y">>

TxtStepError == <<"L","L","M"," ","c","a","l","l"," ","f","a","i","l","e","d">>

MaxStepsGiven == 10

NowGiven == 1730000000

ExtraArgsGiven == {<<<<"i","s","s","u","e">>, <<"4","2">>>>, <<<<"b","a","s","e">>, <<"a","b","\"","c">>>>}

\* the arguments of the sampled start_recording calls
StartSamples ==
    {[task |-> TxtTask, extra_args |-> None],
     [task |-> TxtQuotedTask, extra_args |-> Some(ExtraArgsGiven)]}

StepSamples == {RecordedStep(1, None), RecordedStep(2, Some(TxtStepError))}

\* the arguments of the sampled finalize_recording calls
FinalizeSamples ==
    {[success |-> TRUE, final_result |-> Some(TxtResult),
      total_tokens |-> Some(LLMUsage(100, Some(50), 150))],
     [success |-> FALSE, final_result |-> None,
      total_tokens |-> Some(LLMUsage(7, None, 7))]}

MaxRecorderCalls == 4

CallStart == "start_recording"

CallRecord == "record_agent_step"

CallFinalize == "finalize_recording"

Called(call, args, ok) == [call |-> call, args |-> args, ok |-> ok]

RecorderInit ==
    /\ AgentAbsent
    /\ ExecutorIdle
    /\ BashIdle
    /\ EditIdle
    /\ JsonIdle
    /\ PatchIdle
    /\ RecorderIdle
    /\ EventIdle

\* start_recording: a recording still active is finalized as failed first, and
\* an error of that is returned before anything is started
StartRecording(args, io, order) ==
    LET earlier == finalize_recording(trajectory, trajectory_file, FALSE, None, None,
                                      io, order)
        header == TrajectoryHeader(args.task, TxtProvider, TxtModel, MaxStepsGiven,
                                   NowGiven, args.extra_args)
    IN /\ Len(recorder_calls) < MaxRecorderCalls
       /\ recorder_calls' = Append(recorder_calls, Called(CallStart, args, earlier.ok))
       /\ trajectory' = IF earlier.ok THEN Some(Trajectory(header, <<>>, FALSE, None, None))
                        ELSE None
       /\ last_written' = earlier.written
       /\ trajectory_file' = earlier.file
       /\ UNCHANGED recorder_frame

\* record_agent_step: pushed onto the active recording, dropped without one
RecordAgentStep(step) ==
    /\ Len(recorder_calls) < MaxRecorderCalls
    /\ recorder_calls' = Append(recorder_calls, Called(CallRecord, step, TRUE))
    /\ trajectory' = IF IsSome(trajectory)
                     THEN Some([Unwrap(trajectory) EXCEPT !.steps = Append(@, step)])
                     ELSE trajectory
    /\ last_written' = None
    /\ UNCHANGED <<trajectory_file, recorder_frame>>

FinalizeRecording(args, io, order) ==
    LET done == finalize_recording(trajectory, trajectory_file, args.success,
                                   args.final_result, args.total_tokens, io, order)
    IN /\ Len(recorder_calls) < MaxRecorderCalls
       /\ recorder_calls' = Append(recorder_calls, Called(CallFinalize, args, done.ok))
       /\ trajectory' = None
       /\ last_written' = done.written
       /\ trajectory_file' = done.file
       /\ UNCHANGED recorder_frame

RecorderNext ==
    \/ \E args \in StartSamples, io \in IoFor(trajectory), order \in ArgOrders(trajectory) :
          StartRecording(args, io, order)
    \/ \E step \in StepSamples : RecordAgentStep(step)
    \/ \E args \in FinalizeSamples, io \in IoFor(trajectory),
          order \in ArgOrders(trajectory) : FinalizeRecording(args, io, order)

RecorderSpec == RecorderInit /\ [][RecorderNext]_vars

(***************************************************************************)
(* The event channel of handle_run.  The agent's loop is the one sender,   *)
(* the console task the one receiver.  The sender lives until execute_task *)
(* returns; the receiver until the console task ends.                      *)
(***************************************************************************)
\* mpsc::channel(100)
CHANNEL_CAPACITY == 100

MaxEventSteps == 2

MaxEventCalls == 2

AgentEvent(kind, step, call) == [kind |-> kind, step |-> step, call |-> call]

StepBegin(n) == AgentEvent("StepBegin", n, 0)

LLMRequestSent(n) == AgentEvent("LLMRequestSent", n, 0)

LLMResponseReceived(n) == AgentEvent("LLMResponseReceived", n, 0)

ToolCallAttempt(n, j) == AgentEvent("ToolCallAttempt", n, j)

ToolCallResult(n, j) == AgentEvent("ToolCallResult", n, j)

TaskCompleted == AgentEvent("TaskCompleted", 0, 0)

TaskFailed == AgentEvent("TaskFailed", 0, 0)

\* the receiver has not been dropped
ReceiverOpen == consumer_pc = "receiving"

\* sender.send(event).await with its result ignored: the event is queued when
\* there is room, waited for when there is none, and dropped at once when the
\* receiver is gone
Send(event) ==
    /\ ReceiverOpen => Len(channel) < CHANNEL_CAPACITY
    /\ issued' = Append(issued, event)
    /\ channel' = IF ReceiverOpen THEN Append(channel, event) ELSE channel

\* the loop goes on to the next step, or ends when the steps are used up
ToNextStep ==
    IF emit_step < MaxEventSteps
    THEN /\ emit_phase' = "step_begin"
         /\ emit_step' = emit_step + 1
         /\ emit_success' = emit_success
    ELSE /\ emit_phase' = "post_loop"
         /\ emit_step' = emit_step
         /\ emit_success' = FALSE

EventInit ==
    /\ AgentAbsent
    /\ ExecutorIdle
    /\ BashIdle
    /\ EditIdle
    /\ JsonIdle
    /\ PatchIdle
    /\ RecorderIdle
    /\ emit_phase = "step_begin"
    /\ emit_step = 1
    /\ emit_call = 0
    /\ emit_calls = 0
    /\ emit_success = FALSE
    /\ issued = <<>>
    /\ channel = <<>>
    /\ received = <<>>
    /\ consumer_pc = "receiving"

\* step 1 of the loop
EmitStepBegin ==
    /\ emit_phase = "step_begin"
    /\ Send(StepBegin(emit_step))
    /\ emit_phase' = "request"
    /\ UNCHANGED <<emit_step, emit_call, emit_calls, emit_success, received, consumer_pc,
                   event_frame>>

\* step 3 of the loop, before the LLM client is called
EmitLLMRequestSent ==
    /\ emit_phase = "request"
    /\ Send(LLMRequestSent(emit_step))
    /\ emit_phase' = "llm"
    /\ UNCHANGED <<emit_step, emit_call, emit_calls, emit_success, received, consumer_pc,
                   event_frame>>

\* the answers of the completion policy
EventStops == {"TaskCompleted", "MaxStepsReached", "ValidationFailed", "Continue"}

\* steps 4 and 5: the response has come, with so many tool calls, and the
\* completion policy has answered
EmitLLMResponseReceived(stop, calls) ==
    /\ emit_phase = "llm"
    /\ Send(LLMResponseReceived(emit_step))
    /\ emit_calls' = calls
    /\ CASE stop = "TaskCompleted" ->
                /\ emit_phase' = "post_loop"
                /\ emit_success' = TRUE
                /\ UNCHANGED <<emit_step, emit_call>>
         [] stop = "MaxStepsReached" ->
                /\ emit_phase' = "post_loop"
                /\ emit_success' = FALSE
                /\ UNCHANGED <<emit_step, emit_call>>
         [] stop = "ValidationFailed" ->
                /\ ToNextStep
                /\ UNCHANGED emit_call
         [] stop = "Continue" ->
                IF calls > 0
                THEN /\ emit_phase' = "attempt"
                     /\ emit_call' = 1
                     /\ UNCHANGED <<emit_step, emit_success>>
                ELSE /\ ToNextStep
                     /\ UNCHANGED emit_call
    /\ UNCHANGED <<received, consumer_pc, event_frame>>

\* the LLM client returns an error: the loop ends and the task has failed
LLMErrorEndsLoop ==
    /\ emit_phase = "llm"
    /\ emit_phase' = "post_loop"
    /\ emit_success' = FALSE
    /\ UNCHANGED <<emit_step, emit_call, emit_calls, issued, channel, received, consumer_pc,
                   event_frame>>

\* step 6, before a tool call is run
EmitToolCallAttempt ==
    /\ emit_phase = "attempt"
    /\ Send(ToolCallAttempt(emit_step, emit_call))
    /\ emit_phase' = "result"
    /\ UNCHANGED <<emit_step, emit_call, emit_calls, emit_success, received, consumer_pc,
                   event_frame>>

\* step 6, after the tool call has run
EmitToolCallResult ==
    /\ emit_phase = "result"
    /\ Send(ToolCallResult(emit_step, emit_call))
    /\ IF emit_call < emit_calls
       THEN /\ emit_phase' = "attempt"
            /\ emit_call' = emit_call + 1
            /\ UNCHANGED <<emit_step, emit_success>>
       ELSE /\ ToNextStep
            /\ UNCHANGED emit_call
    /\ UNCHANGED <<emit_calls, received, consumer_pc, event_frame>>

\* after the loop; execute_task then returns and its sender is dropped
EmitTaskEnd ==
    /\ emit_phase = "post_loop"
    /\ Send(IF emit_success THEN TaskCompleted ELSE TaskFailed)
    /\ emit_phase' = "returned"
    /\ UNCHANGED <<emit_step, emit_call, emit_calls, emit_success, received, consumer_pc,
                   event_frame>>

\* a consumer that takes the newest event of the queue
ReceiveNewest ==
    /\ consumer_pc = "receiving"
    /\ channel # <<>>
    /\ received' = Append(received, channel[Len(channel)])
    /\ channel' = SubSeq(channel, 1, Len(channel) - 1)
    /\ UNCHANGED <<emit_phase, emit_step, emit_call, emit_calls, emit_success, issued,
                   consumer_pc, event_frame>>

\* event_rx.recv().await returns Some(event): the oldest event of the queue
Receive ==
    /\ consumer_pc = "receiving"
    /\ channel # <<>>
    /\ received' = Append(received, Head(channel))
    /\ channel' = Tail(channel)
    /\ UNCHANGED <<emit_phase, emit_step, emit_call, emit_calls, emit_success, issued,
                   consumer_pc, event_frame>>

\* recv returns None, the queue being empty and the sender dropped: the
\* while-let loop of the console task ends
ConsumerFinishes ==
    /\ consumer_pc = "receiving"
    /\ channel = <<>>
    /\ emit_phase = "returned"
    /\ consumer_pc' = "finished"
    /\ UNCHANGED <<emit_phase, emit_step, emit_call, emit_calls, emit_success, issued,
                   channel, received, event_frame>>

\* the console task ends early (println! panics when standard output cannot
\* be written): its receiver is dropped and with it what was queued
ConsumerGone ==
    /\ consumer_pc = "receiving"
    /\ consumer_pc' = "gone"
    /\ channel' = <<>>
    /\ UNCHANGED <<emit_phase, emit_step, emit_call, emit_calls, emit_success, issued,
                   received, event_frame>>

AgentEmits ==
    \/ EmitStepBegin
    \/ EmitLLMRequestSent
    \/ \E stop \in EventStops, calls \in 0..MaxEventCalls : EmitLLMResponseReceived(stop, calls)
    \/ LLMErrorEndsLoop
    \/ EmitToolCallAttempt
    \/ EmitToolCallResult
    \/ EmitTaskEnd

ConsumerReceives == Receive \/ ConsumerFinishes

EventNext == AgentEmits \/ ConsumerReceives \/ ConsumerGone

EventSpec == EventInit /\ [][EventNext]_vars

\* the agent's task and the console task are both scheduled again and again
FairEventSpec == EventSpec /\ WF_vars(AgentEmits) /\ WF_vars(ConsumerReceives)

(***************************************************************************)
(* Properties.                                                             *)
(***************************************************************************)
Completed == pc = "returned" /\ result.kind = "Ok"

CompletedBatch == Completed /\ mode = "batch"

AssistantIndices(history) == {i \in 1..Len(history) : history[i].role = "assistant"}

\* the positions of the tool-role messages that answer tool call id
AnswersTo(history, id) ==
    {j \in 1..Len(history) : history[j].role = "tool" /\ history[j].tool_call_id = Some(id)}

\* the tool call with this id, carried by the assistant message at position i,
\* has exactly one answer, and it lies after i and before the next assistant message
AnsweredInStep(history, i, id) ==
    /\ Cardinality(AnswersTo(history, id)) = 1
    /\ \A j \in AnswersTo(history, id) :
           /\ j > i
           /\ \A k \in AssistantIndices(history) : ~(i < k /\ k < j)

AllCallsAnswered(history) ==
    \A i \in AssistantIndices(history) :
        \A c \in 1..Len(CallsOf(history[i])) :
            AnsweredInStep(history, i, CallsOf(history[i])[c].id)

\* C1: whenever an LLM call is about to be made after the first, and when an
\* execution has completed, every tool-call id carried by an assistant message
\* of the history is answered by exactly one tool-role message with that id,
\* placed after that assistant message and before the next one.
C1_EveryToolCallAnswered ==
    ((pc = "llm" /\ step_number > 1) \/ Completed) => AllCallsAnswered(conversation_history)

\* C2: at every point the recorded steps number at most max_steps and their
\* step_number values are 1, 2, ..., N in order.
C2_StepsContiguous ==
    /\ Len(execution.steps) <= max_steps
    /\ \A i \in 1..Len(execution.steps) : execution.steps[i].step_number = i

\* the synthetic user messages of an execute_task history
RecoveryIndices(history) == {i \in 3..Len(history) : history[i].role = "user"}

\* C3: execute_task makes at most max_steps LLM calls and, when every LLM call
\* and every tool call returns, it eventually returns.
C3_ExecuteTaskReturns ==
    /\ [](mode = "batch" => llm_calls <= max_steps)
    /\ ((mode = "batch" /\ pc \in {"llm", "tools"}) ~> (pc = "returned"))

\* an execute_task that used all its LLM calls, validation failing at every step
C3_Witness ==
    /\ CompletedBatch
    /\ max_steps >= 3
    /\ llm_calls = max_steps
    /\ Cardinality(RecoveryIndices(conversation_history)) = max_steps - 1

LastAssistantHasContent(history) ==
    /\ AssistantIndices(history) # {}
    /\ LET last == CHOOSE i \in AssistantIndices(history) :
                       \A k \in AssistantIndices(history) : k <= i
       IN IsSome(history[last].content) /\ Unwrap(history[last].content) # <<>>

\* C4: a completed execution with success = true has final_result set or a last
\* assistant message with non-empty content; one with success = false has
\* error_message set; for execute_task and for execute_interactive_turn.
C4_OutcomeReported ==
    Completed =>
        /\ execution.success =>
               (IsSome(execution.final_result) \/ LastAssistantHasContent(conversation_history))
        /\ ~execution.success => IsSome(execution.error_message)

\* C5: when the first response of an execute_task without must_patch is one
\* task_done call with summary "ok", the execution ends with success = true,
\* final_result "Task completed. Summary: ok", one recorded step and a history
\* whose last message is the tool-role message answering that call.
C5_ImmediateTaskDone ==
    (/\ CompletedBatch
     /\ ~must_patch
     /\ Len(conversation_history) >= 3
     /\ CallsOf(conversation_history[3]) = <<ToolCall(1, TaskDoneName, ArgsSummaryOk)>>)
    => /\ execution.success
       /\ execution.final_result = Some(SummaryPrefix \o TxtOk)
       /\ Len(execution.steps) = 1
       /\ conversation_history[Len(conversation_history)].role = "tool"
       /\ conversation_history[Len(conversation_history)].tool_call_id = Some(1)

\* the contents of the responses that hold a completion cue, and the argument
\* texts of the responses that hold a string summary
CueContents == {TxtDone}

SummaryArguments == {ArgsSummaryOk}

HasCue(message) == IsSome(message.content) /\ Unwrap(message.content) \in CueContents

HasTaskDone(message) == TaskDoneName \in {CallsOf(message)[c].name : c \in 1..Len(CallsOf(message))}

TxtMaxSteps ==
    <<"m","a","x"," ","s","t","e","p","s">>

\* C6: when no response carries a tool call or a completion cue, execute_task
\* makes exactly max_steps LLM calls, records exactly max_steps steps and ends
\* with success = false and an error_message that mentions max steps.
C6_PlainRunUsesAllSteps ==
    (/\ CompletedBatch
     /\ \A i \in AssistantIndices(conversation_history) :
            Len(CallsOf(conversation_history[i])) = 0 /\ ~HasCue(conversation_history[i]))
    => /\ llm_calls = max_steps
       /\ Len(execution.steps) = max_steps
       /\ ~execution.success
       /\ IsSome(execution.error_message)
       /\ Contains(Unwrap(execution.error_message), TxtMaxSteps)

\* the step in which chat() returned a response and the policy was asked
PolicyAnswered == pc = "llm" /\ llm_calls' = llm_calls + 1 /\ result'.kind # "Err"

\* C7: when the policy of execute_task answers ValidationFailed(msg) at step n,
\* the loop goes on to step n + 1: the history gains the assistant message of
\* step n and then a user message containing msg, and the request of step
\* n + 1 is that history.  When validation failed at every step before the
\* last, the execution ends with success = false and an error_message that
\* mentions max steps.
C7_ValidationFailedContinues ==
    /\ [][(PolicyAnswered /\ stop_reason'.kind = "ValidationFailed") =>
            /\ pc' = "llm"
            /\ step_number' = step_number + 1
            /\ Len(conversation_history') = Len(conversation_history) + 2
            /\ SubSeq(conversation_history', 1, Len(conversation_history)) = conversation_history
            /\ conversation_history'[Len(conversation_history) + 1] =
                   LLMMessage("assistant", llm_response'.content, llm_response'.tool_calls, None)
            /\ conversation_history'[Len(conversation_history) + 2].role = "user"
            /\ IsSome(conversation_history'[Len(conversation_history) + 2].content)
            /\ Contains(Unwrap(conversation_history'[Len(conversation_history) + 2].content),
                        stop_reason'.msg)
            /\ llm_request' = conversation_history']_vars
    /\ []((/\ CompletedBatch
           /\ llm_calls = max_steps
           /\ Cardinality(RecoveryIndices(conversation_history)) = max_steps - 1)
          => /\ ~execution.success
             /\ IsSome(execution.error_message)
             /\ Contains(Unwrap(execution.error_message), TxtMaxSteps))

\* the request of step 2 carries the recovery message of step 1
C7_Witness ==
    /\ pc = "llm"
    /\ mode = "batch"
    /\ step_number = 2
    /\ stop_reason = ValidationFailed(MsgPatchEmpty)
    /\ llm_request[Len(llm_request)] = LLMMessage("user", Some(MsgPatchEmpty), None, None)

\* the diffs whose lines outside test-file hunks are not all blank
NonTestDiffs == {DiffCode, DiffMixed}

PolicySawPatch ==
    /\ IsSome(project_path)
    /\ IsSome(git_diff_seen)
    /\ Unwrap(git_diff_seen).ok
    /\ Unwrap(git_diff_seen).text \in NonTestDiffs

ExpectedStopKind(response, step, limit) ==
    IF step >= limit THEN "MaxStepsReached"
    ELSE IF HasTaskDone(response) \/ HasCue(response) THEN "TaskCompleted"
    ELSE "Continue"

\* C9: with must_patch = false, fn_should_stop(response, step, max_steps)
\* answers MaxStepsReached whenever step >= max_steps, otherwise TaskCompleted
\* when a tool call is named task_done or the lower-cased content holds a
\* completion cue, otherwise Continue.
C9_PolicyWithoutMustPatch ==
    (pc = "policy_answered" /\ ~must_patch) =>
        stop_reason = StopReason(ExpectedStopKind(llm_response, step_number, max_steps))

\* a response calling task_done at step = max_steps is answered MaxStepsReached
C9_Witness ==
    /\ pc = "policy_answered"
    /\ ~must_patch
    /\ step_number = max_steps
    /\ HasTaskDone(llm_response)
    /\ stop_reason = StopReason("MaxStepsReached")

FirstTaskDone(message) ==
    CallsOf(message)[CHOOSE c \in 1..Len(CallsOf(message)) :
                         /\ CallsOf(message)[c].name = TaskDoneName
                         /\ \A d \in 1..Len(CallsOf(message)) :
                                CallsOf(message)[d].name = TaskDoneName => c <= d]

ExpectedFinalMessage(response) ==
    IF HasTaskDone(response)
    THEN IF FirstTaskDone(response).arguments \in SummaryArguments
         THEN Some(SummaryPrefix \o TxtOk)
         ELSE Some(MarkedDone)
    ELSE response.content

C11_InteractivePolicy ==
    pc = "interactive_answered" =>
        LET cap == IF max_steps < 2 THEN max_steps ELSE 2
            has_calls == Len(CallsOf(llm_response)) >= 1
        IN /\ stop_reason.kind \in {"TaskCompleted", "Continue"}
           /\ (step_number >= cap \/ ~has_calls \/ step_number > 1) =>
                  stop_reason = StopReason("TaskCompleted")
           /\ stop_reason = StopReason("Continue") <=>
                  (step_number = 1 /\ cap > 1 /\ has_calls)

\* a first step with a tool call under a cap of 2 is answered Continue
C11_Witness ==
    /\ pc = "interactive_answered"
    /\ step_number = 1
    /\ max_steps >= 2
    /\ Len(CallsOf(llm_response)) >= 1
    /\ stop_reason = StopReason("Continue")

\* C12: an interactive turn makes at most min(max_steps, 2) LLM calls, runs
\* tool calls in its first step only (one round), records at most one step,
\* and returns when every LLM call and every tool call returns.
C12_TurnBounded ==
    /\ [](mode = "interactive" =>
            /\ llm_calls <= (IF max_steps < 2 THEN max_steps ELSE 2)
            /\ (pc = "tools" => step_number = 1)
            /\ Len(execution.steps) <= 1)
    /\ ((mode = "interactive" /\ pc \in {"llm", "tools"}) ~> (pc = "returned"))

\* a turn of two LLM calls with one round of tool calls between them
C12_Witness ==
    /\ Completed
    /\ mode = "interactive"
    /\ max_steps >= 3
    /\ llm_calls = 2
    /\ Len(execution.steps) = 1
    /\ Len(execution.steps[1].tool_results) >= 1

IsPrefix(p, h) == Len(p) <= Len(h) /\ SubSeq(h, 1, Len(p)) = p

\* C13: a successful execute_interactive_turn returns exactly the messages the
\* turn appended to the conversation history, in order; the history before
\* the turn is unchanged and remains a prefix of the history.
C13_TurnReturnsDelta ==
    /\ [][(pc \in {"created", "ready"} /\ pc' = "llm" /\ mode' = "interactive") =>
            /\ history_before_execution' = conversation_history
            /\ conversation_history' = conversation_history]_vars
    /\ []((mode = "interactive" /\ pc \in {"llm", "tools"}) =>
            IsPrefix(history_before_execution, conversation_history))
    /\ []((Completed /\ mode = "interactive") =>
            history_before_execution \o result.messages = conversation_history)

\* a turn that returns an assistant message, a tool message and the follow-up
C13_Witness ==
    /\ Completed
    /\ mode = "interactive"
    /\ Len(history_before_execution) = 2
    /\ Len(result.messages) >= 3
    /\ result.messages[1].role = "assistant"
    /\ result.messages[2].role = "tool"

\* the last messages of the history are the assistant message of response
\* followed by one tool-role message per tool call of it, in the order of the calls
EndsWithStepOf(history, response) ==
    LET calls == CallsOf(response)
        base == Len(history) - Len(calls)
    IN /\ base >= 1
       /\ history[base] = LLMMessage("assistant", response.content, response.tool_calls, None)
       /\ \A i \in 1..Len(calls) :
              /\ history[base + i].role = "tool"
              /\ history[base + i].tool_call_id = Some(calls[i].id)

\* C14: while a task runs the conversation history is append-only; the LLM
\* answer of a step appends the assistant message first, every tool call that
\* is executed appends one tool-role message with its id, and a step that ran
\* its tool calls leaves the assistant message followed by one tool-role
\* message per tool call.
C14_HistoryAppendOnly ==
    /\ [][(pc \in {"llm", "tools"}) =>
            /\ IsPrefix(conversation_history, conversation_history')
            /\ PolicyAnswered =>
                   /\ Len(conversation_history') >= Len(conversation_history) + 1
                   /\ conversation_history'[Len(conversation_history) + 1] =
                          LLMMessage("assistant", llm_response'.content,
                                     llm_response'.tool_calls, None)
            /\ pc = "tools" =>
                   /\ Len(conversation_history') = Len(conversation_history) + 1
                   /\ conversation_history'[Len(conversation_history')].role = "tool"
                   /\ conversation_history'[Len(conversation_history')].tool_call_id =
                          Some(CallsOf(llm_response)[tool_index].id)]_vars
    /\ []((pc = "llm" /\ stop_reason.kind = "Continue") =>
            EndsWithStepOf(conversation_history, llm_response))

\* the second LLM call of a task is due after a step that ran two tool calls
C14_Witness ==
    /\ pc = "llm"
    /\ mode = "batch"
    /\ step_number = 2
    /\ stop_reason.kind = "Continue"
    /\ Len(CallsOf(llm_response)) = 2
    /\ Len(conversation_history) = 5

\* C15: while the tools of a step run, the LLM call of the step has returned
\* and its assistant message is in the history; the tools run one at a time in
\* the order of the calls, tool i + 1 after tool i has returned, and their
\* tool-role messages and results are appended in that order; the request of
\* every LLM call is the whole history, the messages of the step before
\* included.
C15_StepOrder ==
    /\ [](pc = "tools" =>
            LET calls == CallsOf(llm_response)
                base == Len(conversation_history) - (tool_index - 1)
            IN /\ tool_index \in 1..Len(calls)
               /\ llm_calls = step_number
               /\ Len(step_tool_results) = tool_index - 1
               /\ base >= 1
               /\ conversation_history[base] =
                      LLMMessage("assistant", llm_response.content,
                                 llm_response.tool_calls, None)
               /\ \A i \in 1..(tool_index - 1) :
                      /\ conversation_history[base + i].role = "tool"
                      /\ conversation_history[base + i].tool_call_id = Some(calls[i].id)
                      /\ step_tool_results[i].tool_call_id = calls[i].id)
    /\ [][(pc = "tools" /\ pc' = "tools") => tool_index' = tool_index + 1]_vars
    /\ [](pc = "llm" => llm_request = conversation_history)

\* the second tool of a step is about to run, the first has been answered
C15_Witness ==
    /\ pc = "tools"
    /\ tool_index = 2
    /\ Len(step_tool_results) = 1
    /\ conversation_history[Len(conversation_history)].role = "tool"

\* the tool result a step of the executor has just produced
NewToolResult ==
    IF pc' = "tools"
    THEN step_tool_results'[tool_index]
    ELSE execution'.steps[Len(execution'.steps)].tool_results[tool_index]

\* C16: a tool call that fails (unknown tool, arguments that do not parse or
\* are no object, an error of the tool, a non-zero error code) does not end
\* the loop and does not mark the execution failed: its error text is appended
\* as the tool-role message of the call and the loop goes on with the next
\* tool call of the step or, after the last one, with the next LLM call.
C16_ToolFailureIsData ==
    [][(pc = "tools" /\ ~NewToolResult.success) =>
        LET calls == CallsOf(llm_response)
            message == conversation_history'[Len(conversation_history')]
        IN /\ pc' = (IF tool_index < Len(calls) THEN "tools" ELSE "llm")
           /\ execution'.success = execution.success
           /\ execution'.error_message = execution.error_message
           /\ result' = result
           /\ Len(conversation_history') = Len(conversation_history) + 1
           /\ message.role = "tool"
           /\ message.tool_call_id = Some(calls[tool_index].id)
           /\ IsSome(NewToolResult.error)
           /\ message.content = NewToolResult.error]_vars

\* the next LLM call is due after a step whose call of an unknown tool failed
C16_Witness ==
    /\ pc = "llm"
    /\ Len(execution.steps) = 1
    /\ Len(execution.steps[1].tool_results) = 2
    /\ ~execution.steps[1].tool_results[1].success
    /\ execution.steps[1].tool_calls[1].name = UnknownToolName
    /\ execution.error_message = None

\* C17: when an LLM call returns an error instead of a response, the loop stops
\* at that step and the entry point returns the error: the execution is not a
\* success, nothing is appended to the history, no tool runs and no other LLM
\* call is made.
C17_LLMErrorFailsTask ==
    [][(pc = "llm" /\ llm_calls' = llm_calls + 1
           /\ conversation_history' = conversation_history) =>
        /\ pc' = "returned"
        /\ result'.kind = "Err"
        /\ ~execution'.success
        /\ execution'.final_result = None
        /\ execution'.steps = execution.steps
        /\ step_number' = step_number]_vars

\* the second LLM call of a task failed after one recorded step
C17_Witness ==
    /\ pc = "returned"
    /\ result.kind = "Err"
    /\ llm_calls = 2
    /\ Len(execution.steps) = 1
    /\ ~execution.success

\* the text of the user message for a task, its arguments and the project
\* path known after the call (the sample texts end in no white space)
ExpectedUserContent(task, task_args, path) ==
    LET statement == IF IsSome(ArgStr(task_args, KeyIssue))
                     THEN IssuePrefix \o Unwrap(ArgStr(task_args, KeyIssue))
                     ELSE ProblemPrefix \o task
    IN IF IsSome(path)
       THEN statement \o <<"\n">> \o ProjectRootPrefix \o Unwrap(path) \o <<"\n">>
       ELSE statement \o <<"\n">>

ExecutedCall == CallsOf(llm_response)[tool_index]

\* C19: on every path of execute_tool_call (tool not found, arguments that do
\* not parse, arguments that are no object and not null, the tool returning
\* Ok, the tool returning Err) the tool result carries the id of the request.
C19_ResultEchoesId ==
    pc = "tool_executed" => step_tool_results[1].tool_call_id = ExecutedCall.id

\* a bash call with an array as arguments is refused under its own id
C19_Witness ==
    /\ pc = "tool_executed"
    /\ ExecutedCall.name = BashName
    /\ ExecutedCall.arguments = ArgsArray
    /\ ExecutedCall.id = 2
    /\ ~step_tool_results[1].success
    /\ step_tool_results[1].tool_call_id = 2

\* the argument texts that are empty or blank, and the names of sample tools
\* the registry holds
BlankArguments == {<<>>, ArgsBlank}

KnownSampleTools == {BashName, TaskDoneName}

\* C20: a registered tool called with an empty or blank argument text receives
\* JSON null; in every other call that reaches the tool, the tool receives
\* the JSON value parsed from the argument text.
C20_ToolArgument ==
    pc = "tool_executed" =>
        /\ (ExecutedCall.name \in KnownSampleTools
               /\ ExecutedCall.arguments \in BlankArguments) =>
               tool_argument_seen = Some(JNull)
        /\ (IsSome(tool_argument_seen) /\ ExecutedCall.arguments \notin BlankArguments) =>
               tool_argument_seen = from_str(ExecutedCall.arguments)

\* bash called with a blank argument text has received null
C20_Witness ==
    /\ pc = "tool_executed"
    /\ ExecutedCall.name = BashName
    /\ ExecutedCall.arguments = ArgsBlank
    /\ tool_argument_seen = Some(JNull)
    /\ step_tool_results[1].success

\* the three refusals of execute_tool_call, each with the text that names it
RefusedNotFound ==
    /\ ExecutedCall.name \notin DefaultRegistry
    /\ StartsWith(Unwrap(step_tool_results[1].error),
                  TxtNotFoundPrefix \o ExecutedCall.name \o TxtNotFoundSuffix)

RefusedWrongType ==
    /\ ExecutedCall.name \in DefaultRegistry
    /\ IsSome(from_str(ExecutedCall.arguments))
    /\ Unwrap(from_str(ExecutedCall.arguments)).t \in {"array", "number", "string", "bool"}
    /\ StartsWith(Unwrap(step_tool_results[1].error), TxtMustParse)

RefusedInvalidJson ==
    /\ ExecutedCall.name \in DefaultRegistry
    /\ IsNone(from_str(ExecutedCall.arguments))
    /\ StartsWith(Unwrap(step_tool_results[1].error), TxtInvalidJson \o ExecutedCall.name)

RefusedWithoutExecute ==
    /\ tool_argument_seen = None
    /\ ~step_tool_results[1].success
    /\ IsNone(step_tool_results[1].result)
    /\ IsSome(step_tool_results[1].error)
    /\ RefusedNotFound \/ RefusedWrongType \/ RefusedInvalidJson

\* C21: the executor passes a tool only a JSON object or JSON null.  A call
\* that names an unregistered tool, or whose argument text parses to an array,
\* a number, a string or a boolean, or whose argument text is not blank (not
\* empty and not whitespace only) and is not valid JSON, gets a failure result
\* with an error text naming the reason, and the tool's execute is not called.
C21_OnlyObjectOrNullReachesTool ==
    pc = "tool_executed" =>
        /\ IsSome(tool_argument_seen) =>
               is_object(Unwrap(tool_argument_seen)) \/ is_null(Unwrap(tool_argument_seen))
        /\ (\/ ExecutedCall.name \notin DefaultRegistry
            \/ /\ IsSome(from_str(ExecutedCall.arguments))
               /\ Unwrap(from_str(ExecutedCall.arguments)).t
                      \in {"array", "number", "string", "bool"}
            \/ /\ IsNone(from_str(ExecutedCall.arguments))
               /\ ~TrimIsEmpty(ExecutedCall.arguments))
               => RefusedWithoutExecute

\* bash called with the text of a number is refused and not executed
C21_Witness ==
    /\ pc = "tool_executed"
    /\ ExecutedCall.name = BashName
    /\ ExecutedCall.arguments = ArgsNumber
    /\ tool_argument_seen = None
    /\ ~step_tool_results[1].success
    /\ StartsWith(Unwrap(step_tool_results[1].error), TxtMustParse)

\* C21 as stated: every argument text that is non-empty and is not valid JSON
\* gets a failure result and the tool's execute is not called.
C21_NonEmptyInvalidRefused ==
    (/\ pc = "tool_executed"
     /\ ExecutedCall.arguments # <<>>
     /\ IsNone(from_str(ExecutedCall.arguments)))
        => RefusedWithoutExecute

\* C22: when the tool's execute returns Ok(exec_result) the tool result has
\* success exactly when error_code is 0, result = exec_result.output and
\* error = exec_result.error; when it returns Err the tool result has
\* success = false, no result, and the text of the error as error.
C22_ResultFromExecute ==
    [][\A i \in 1..MaxCalls : \A outcome \in ToolOutcomes :
           (ExecuteToolCallAt(i, outcome) /\ IsSome(tool_argument_seen')) =>
               LET exec == ToolExecute(CallsOf(llm_response)[i].name,
                                       Unwrap(tool_argument_seen'), outcome)
                   res == step_tool_results'[1]
               IN IF exec.ok
                  THEN /\ res.success <=> (exec.error_code = 0)
                       /\ res.result = exec.output
                       /\ res.error = exec.error
                  ELSE /\ ~res.success
                       /\ res.result = None
                       /\ res.error = exec.error /\ IsSome(exec.error)]_vars

\* bash returned Ok with exit code 1: the result fails and keeps the output
C22_Witness ==
    /\ pc = "tool_executed"
    /\ ExecutedCall.name = BashName
    /\ ExecutedCall.arguments = ArgsCommand
    /\ ~step_tool_results[1].success
    /\ step_tool_results[1].result = Some(TxtOut)
    /\ step_tool_results[1].error = Some(TxtExit1)

\* C23: parallel_tool_calls returns only when every call of its input has
\* finished, and whatever the order in which the calls finished its output
\* is as long as the input and holds at i the result of input call i;
\* sequential_tool_calls on the same input, with tools that do not interfere,
\* returns the same list.
C23_ParallelKeepsInputOrder ==
    /\ IsSome(parallel_output) =>
           /\ Len(finish_order) = Len(batch_calls)
           /\ \A i \in 1..Len(batch_calls) : IsSome(join_slots[i])
           /\ Len(Unwrap(parallel_output)) = Len(batch_calls)
           /\ \A i \in 1..Len(batch_calls) :
                  /\ Unwrap(parallel_output)[i] = BatchResult(i)
                  /\ Unwrap(parallel_output)[i].tool_call_id = batch_calls[i].id
    /\ (IsSome(parallel_output) /\ IsSome(sequential_output)) =>
           Unwrap(sequential_output) = Unwrap(parallel_output)

\* three calls finished last-first, with different results; both operations
\* have returned
C23_Witness ==
    /\ Len(batch_calls) = 3
    /\ finish_order = <<3, 1, 2>>
    /\ IsSome(parallel_output)
    /\ IsSome(sequential_output)
    /\ Unwrap(parallel_output)[1].success
    /\ ~Unwrap(parallel_output)[3].success

\* a bash call with a timeout whose process was spawned has returned
TimedCallReturned ==
    /\ bash_pc = "returned"
    /\ IsSome(Unwrap(bash_args).timeout)
    /\ child # "none"

\* the outcome of a timeout: no output, the error text, code 124, the process killed
TimeoutOutcome ==
    /\ child = "killed"
    /\ bash_result = Some(TimedOut(Unwrap(bash_args)))
    /\ IsNone(Unwrap(bash_result).output)
    /\ StartsWith(Unwrap(Unwrap(bash_result).error), TxtCommandQuote)
    /\ EndsWith(Unwrap(Unwrap(bash_result).error),
                TxtTimedOutAfter \o Decimal(Unwrap(Unwrap(bash_args).timeout)) \o TxtSeconds)
    /\ Unwrap(bash_result).error_code = 124
    /\ ~ResultOfExec(1, Unwrap(bash_result)).success

\* the outcome of a process that ended and was waited for: its streams and its status
OutputOutcome ==
    /\ child = "exited"
    /\ Unwrap(child_output).ok
    /\ IsSome(bash_streams)
    /\ bash_result = Some(Finished(Unwrap(bash_streams).stdout, Unwrap(bash_streams).stderr,
                                   Unwrap(child_output).code))
    /\ IsSome(Unwrap(bash_result).output)

\* waiting for the process failed with an I/O error
WaitFailedOutcome ==
    /\ child = "exited"
    /\ ~Unwrap(child_output).ok
    /\ bash_result = Some(ExecErr(TxtWaitFailed))

ProcessWaitedFor ==
    /\ bash_pc \in {"returned", "panicked"}
    /\ child = "exited"
    /\ Unwrap(child_output).ok

\* what the claim allows as the report of a stream
ReportOf(raw, reported) ==
    /\ len(reported) <= MAX_BASH_OUTPUT_LEN
    /\ len(raw) <= MAX_BASH_OUTPUT_LEN => reported = raw
    /\ len(raw) > MAX_BASH_OUTPUT_LEN =>
           /\ len(reported) = MAX_BASH_OUTPUT_LEN
           /\ reported # <<>>
           /\ reported[Len(reported)] = Run(TRUNCATED_BASH_MESSAGE, 1)

\* C25: for every stdout and stderr content the shell tool reports a text of
\* at most 16,000 bytes for the stream: the content itself when it has at
\* most 16,000 bytes, else a text of exactly 16,000 bytes that ends with the
\* clipped marker.
C25_StreamsClipped ==
    ProcessWaitedFor =>
        /\ bash_pc = "returned"
        /\ IsSome(bash_streams)
        /\ ReportOf(Unwrap(child_output).stdout, Unwrap(bash_streams).stdout)
        /\ ReportOf(Unwrap(child_output).stderr, Unwrap(bash_streams).stderr)

\* the positions at which pat occurs in text
Occurrences(text, pat) == {i \in 1..(Len(text) + 1) : MatchAt(text, pat, i)}

\* how often pat occurs in text, occurrences that overlap counting once: the
\* size of the largest set of occurrences no two of which overlap
OccurrenceCount(text, pat) ==
    IF pat = <<>> THEN Cardinality(Occurrences(text, pat))
    ELSE LET Apart(S) == \A i \in S : \A j \in S : i < j => i + Len(pat) <= j
             sizes == {Cardinality(S) : S \in {T \in SUBSET Occurrences(text, pat) : Apart(T)}}
         IN CHOOSE n \in sizes : \A m \in sizes : m <= n

\* the call is a command on an absolute path at which a file exists
OnExistingFile(args, command_name) ==
    /\ args.command = command_name
    /\ is_absolute(args.path)
    /\ exists(files, args.path)

\* C26: str_replace (on an existing file, with old_str given) succeeds if and
\* only if old_str, tabs expanded to 8 spaces in it and in the file content,
\* occurs exactly once in the file; with no occurrence it fails with a
\* not-found error, with more than one with an error that says how many.
C26_ReplaceIffUnique ==
    [][\A args \in EditArgsSamples :
           (EditExecute(args) /\ OnExistingFile(args, CmdStrReplace) /\ IsSome(args.old_str)) =>
               LET count == OccurrenceCount(expand_tabs(Unwrap(files[args.path])),
                                            expand_tabs(Unwrap(args.old_str)))
                   res == Unwrap(edit_result')
               IN /\ res.ok <=> count = 1
                  /\ count = 0 => Contains(Unwrap(res.error), TxtSpacesNotFound)
                  /\ count > 1 =>
                         Contains(Unwrap(res.error),
                                  TxtSpacesFound \o Decimal(count) \o TxtTimesInFile)]_vars

\* a tab given as old_str was found once in "a<tab>b" and replaced
C26_Witness ==
    /\ IsSome(edit_args)
    /\ Unwrap(edit_args).command = CmdStrReplace
    /\ Unwrap(edit_args).old_str = Some(<<"\t">>)
    /\ Unwrap(edit_args).new_str = Some(<<"c">>)
    /\ Unwrap(edit_result).ok
    /\ files[PathF] = Some(<<"a","c","b">>)

\* the one occurrence of pat in text replaced by to
ReplacedAt(text, pat, to, i) ==
    SubSeq(text, 1, i - 1) \o to \o SubSeq(text, i + Len(pat), Len(text))

\* C27: after a successful str_replace the written file is the tab-expanded
\* content with one occurrence of the tab-expanded old_str replaced by the
\* tab-expanded new_str and nothing else changed; the number of occurrences
\* of old_str in it is the original count minus one exactly when the
\* replacement forms no new occurrence.
C27_ReplaceWritesOneReplacement ==
    [][\A args \in EditArgsSamples :
           (/\ EditExecute(args)
            /\ OnExistingFile(args, CmdStrReplace)
            /\ Unwrap(edit_result').ok) =>
               LET content == expand_tabs(Unwrap(files[args.path]))
                   old == expand_tabs(Unwrap(args.old_str))
                   new == expand_tabs(IF IsSome(args.new_str) THEN Unwrap(args.new_str)
                                      ELSE <<>>)
                   written == Unwrap(files'[args.path])
               IN /\ OccurrenceCount(content, old) = 1
                  /\ \E i \in Occurrences(content, old) :
                         written = ReplacedAt(content, old, new, i)
                  /\ files'[PathG] = files[PathG]
                  /\ (OccurrenceCount(written, old) = OccurrenceCount(content, old) - 1)
                         <=> Occurrences(written, old) = {}]_vars

\* "a" was replaced by "aa": the written file holds old_str twice
C27_Witness ==
    /\ IsSome(edit_args)
    /\ Unwrap(edit_args).command = CmdStrReplace
    /\ Unwrap(edit_args).old_str = Some(<<"a">>)
    /\ Unwrap(edit_args).new_str = Some(<<"a","a">>)
    /\ Unwrap(edit_result).ok
    /\ files[PathF] = Some(<<"a","a","\n","b">>)

\* C27 as stated: after a successful str_replace, whatever old_str and
\* new_str are, the written file has one occurrence of the tab-expanded
\* old_str less than the original content had.
C27_CountDropsByOne ==
    [][\A args \in EditArgsSamples :
           (/\ EditExecute(args)
            /\ OnExistingFile(args, CmdStrReplace)
            /\ Unwrap(edit_result').ok) =>
               OccurrenceCount(Unwrap(files'[args.path]), expand_tabs(Unwrap(args.old_str)))
                   = OccurrenceCount(expand_tabs(Unwrap(files[args.path])),
                                     expand_tabs(Unwrap(args.old_str))) - 1]_vars

\* the failures the claim lists
ListedFailure(args) ==
    \/ ~is_absolute(args.path)
    \/ /\ is_absolute(args.path)
       /\ args.command # CmdCreate
       /\ ~exists(files, args.path)
    \/ /\ is_absolute(args.path)
       /\ args.command = CmdCreate
       /\ exists(files, args.path) \/ IsNone(args.file_text)
    \/ /\ OnExistingFile(args, CmdStrReplace)
       /\ IsSome(args.old_str)
       /\ OccurrenceCount(expand_tabs(Unwrap(files[args.path])),
                          expand_tabs(Unwrap(args.old_str))) # 1
    \/ /\ OnExistingFile(args, CmdInsert)
       /\ IsSome(args.insert_line)
       /\ IsSome(args.new_str)
       /\ \/ Unwrap(args.insert_line) < 0
          \/ Unwrap(args.insert_line) > Len(Lines(expand_tabs(Unwrap(files[args.path]))))

C29_InsertKeepsLines ==
    [][\A args \in EditArgsSamples :
           (/\ EditExecute(args)
            /\ OnExistingFile(args, CmdInsert)
            /\ IsSome(args.insert_line)
            /\ IsSome(args.new_str)) =>
               LET k == Unwrap(args.insert_line)
                   original == Lines(expand_tabs(Unwrap(files[args.path])))
                   n == Len(original)
               IN /\ Unwrap(edit_result').ok <=> (0 <= k /\ k <= n)
                  /\ Unwrap(edit_result').ok =>
                         Lines(Unwrap(files'[args.path]))
                             = SubSeq(original, 1, k)
                                   \o Lines(expand_tabs(Unwrap(args.new_str)))
                                   \o SubSeq(original, k + 1, n)]_vars

HasTab(text) == \E i \in 1..Len(text) : text[i] = "\t"

\* C30: after a successful str_replace or insert the file holds no tab
\* character; create writes file_text as it is, tabs included; expanding the
\* tabs of a text that has been expanded changes nothing.
C30_NoTabsAfterEdit ==
    [][\A args \in EditArgsSamples :
           (EditExecute(args) /\ Unwrap(edit_result').ok) =>
               /\ args.command \in {CmdStrReplace, CmdInsert} =>
                      ~HasTab(Unwrap(files'[args.path]))
               /\ args.command = CmdCreate => files'[args.path] = args.file_text
               /\ args.command # CmdCreate =>
                      /\ expand_tabs(expand_tabs(Unwrap(files[args.path])))
                             = expand_tabs(Unwrap(files[args.path]))
                      /\ expand_tabs(Unwrap(files'[args.path])) = Unwrap(files'[args.path])
                             \/ args.command = CmdView]_vars

\* a line with a tab was inserted into a file with tabs: eight spaces each
C30_Witness ==
    /\ IsSome(edit_args)
    /\ Unwrap(edit_args).command = CmdInsert
    /\ Unwrap(edit_args).insert_line = Some(1)
    /\ Unwrap(edit_args).new_str = Some(<<"\t","c","\n","d">>)
    /\ Unwrap(edit_result).ok
    /\ files[PathF] = Some(repeat_space(TAB_WIDTH) \o <<"a","\n">>
                               \o repeat_space(TAB_WIDTH) \o <<"c","\n","d","\n">>
                               \o repeat_space(TAB_WIDTH) \o <<"a">>)

\* the member of the arguments of a call, as the text or value it holds
GivenText(arguments, key) == Unwrap(JsonGet(arguments, key)).v

\* the call names one of the operations, an absolute path and a JSONPath that
\* parses, and the file holds a document
OnDocument(arguments, operations) ==
    /\ to_lowercase(GivenText(arguments, KOperation)) \in operations
    /\ is_absolute(GivenText(arguments, KFilePath))
    /\ IsSome(json_file)
    /\ IsSome(json_from_str(Unwrap(json_file)))
    /\ IsSome(JsonGet(arguments, KJsonPath))
    /\ IsSome(str_path(GivenText(arguments, KJsonPath)))

\* the nodes of the document in the file that the JSONPath of the call matches
Matched(arguments) ==
    LET found == select(Unwrap(json_from_str(Unwrap(json_file))),
                        Unwrap(str_path(GivenText(arguments, KJsonPath))))
    IN {found[i] : i \in 1..Len(found)}

\* the document with every node at one of the places replaced by new and
\* every other node as it is
RECURSIVE Rebuilt(_, _, _, _)
Rebuilt(val, here, places, new) ==
    IF here \in places THEN new
    ELSE CASE val.t = "object" ->
                  JObject([i \in 1..Len(val.v) |->
                               <<val.v[i][1],
                                 Rebuilt(val.v[i][2], here \o <<Token(TRUE, val.v[i][1], 0)>>,
                                         places, new)>>])
           [] val.t = "array" ->
                  JArray([i \in 1..Len(val.v) |->
                              Rebuilt(val.v[i], here \o <<Token(FALSE, <<>>, i - 1)>>,
                                      places, new)])
           [] OTHER -> val

\* the same call with another operation
WithOperation(arguments, operation) ==
    JObject([i \in 1..Len(arguments.v) |->
                 IF arguments.v[i][1] = KOperation THEN <<KOperation, JString(operation)>>
                 ELSE arguments.v[i]])

\* C31: set and add are the same operation: for every document, JSONPath and
\* value given, the file they write is the same, and it is the document with
\* every node the path matches replaced by the value; when the path matches
\* nothing the document is unchanged.
C31_SetAndAddReplace ==
    [][\A arguments \in JsonArgumentsSamples :
           (/\ JsonExecute(arguments)
            /\ OnDocument(arguments, {OpSet, OpAdd})
            /\ IsSome(JsonGet(arguments, KValue))) =>
               LET doc == Unwrap(json_from_str(Unwrap(json_file)))
                   value == Unwrap(JsonGet(arguments, KValue))
               IN /\ json_execute(json_file, WithOperation(arguments, OpSet)).file
                         = json_execute(json_file, WithOperation(arguments, OpAdd)).file
                  /\ Unwrap(json_result').ok
                  /\ json_saved' = Some(Rebuilt(doc, <<>>, Matched(arguments), value))
                  /\ json_file' = Some(save_json_file(Unwrap(json_saved'),
                                                      IsNone(JsonGet(arguments, KPrettyPrint))))
                  /\ Matched(arguments) = {} => json_saved' = Some(doc)]_vars

\* what holds the members and elements of a document: for every object its
\* keys and for every array its length, each with the place of the node
RECURSIVE Shape(_, _)
Shape(val, here) ==
    CASE val.t = "object" ->
             {[at |-> here, keys |-> [i \in 1..Len(val.v) |-> val.v[i][1]], length |-> 0]}
                 \cup UNION {Shape(val.v[i][2], here \o <<Token(TRUE, val.v[i][1], 0)>>) :
                                 i \in 1..Len(val.v)}
      [] val.t = "array" ->
             {[at |-> here, keys |-> <<>>, length |-> Len(val.v)]}
                 \cup UNION {Shape(val.v[i], here \o <<Token(FALSE, <<>>, i - 1)>>) :
                                 i \in 1..Len(val.v)}
      [] OTHER -> {}

\* the place lies at or below one of the places
Within(place, places) ==
    \E p \in places : Len(p) <= Len(place) /\ SubSeq(place, 1, Len(p)) = p

\* C32: remove writes the document with every node the JSONPath matches
\* replaced by null; the object that holds a matched member keeps all its
\* keys and the array that holds a matched element keeps its length, as does
\* every object and array that is not a matched node or inside one; a path
\* that matches nothing leaves the document unchanged.
C32_RemoveWritesNull ==
    [][\A arguments \in JsonArgumentsSamples :
           (JsonExecute(arguments) /\ OnDocument(arguments, {OpRemove})) =>
               LET doc == Unwrap(json_from_str(Unwrap(json_file)))
               IN /\ Unwrap(json_result').ok
                  /\ json_saved' = Some(Rebuilt(doc, <<>>, Matched(arguments), JNull))
                  /\ json_file' = Some(save_json_file(Unwrap(json_saved'),
                                                      IsNone(JsonGet(arguments, KPrettyPrint))))
                  /\ Shape(Unwrap(json_saved'), <<>>)
                         = {e \in Shape(doc, <<>>) : ~Within(e.at, Matched(arguments))}
                  /\ Matched(arguments) = {} => json_saved' = Some(doc)]_vars

\* remove of $.a was applied to {"a":{"b":1},"name":"test"}
C32_Witness ==
    /\ IsSome(json_args)
    /\ GivenText(Unwrap(json_args), KOperation) = OpRemove
    /\ JsonGet(Unwrap(json_args), KJsonPath) = Some(JString(PathA))
    /\ IsSome(json_result)
    /\ Unwrap(json_result).ok
    /\ json_saved = Some(JObject(<< <<KA, JNull>>, <<KName, JString(TxtTest)>> >>))
    /\ json_file = Some(to_string(Unwrap(json_saved)))

\* C32 as stated: remove replaces every matched node by null and the object
\* keys and array lengths of the whole document are the same before and
\* after.
C32_KeysAndLengthsKept ==
    [][\A arguments \in JsonArgumentsSamples :
           (JsonExecute(arguments) /\ OnDocument(arguments, {OpRemove})) =>
               LET doc == Unwrap(json_from_str(Unwrap(json_file)))
               IN /\ json_saved' = Some(Rebuilt(doc, <<>>, Matched(arguments), JNull))
                  /\ Shape(Unwrap(json_saved'), <<>>) = Shape(doc, <<>>)
                  /\ Matched(arguments) = {} => json_saved' = Some(doc)]_vars

\* the line is a diff --git a/... header
IsDiffHeader(line) == StartsWith(line, DiffGitPrefix)

\* the path after b/ in a header of git diff, None for a header without it
TargetPath(line) ==
    IF \E path \in HeaderPaths : line = DiffHeader(path)
    THEN Some(CHOOSE path \in HeaderPaths : line = DiffHeader(path))
    ELSE None

\* line i lies in the part of a header whose target is a test file: the last
\* header at or before it has a target path that matches a test-file pattern
InTestPart(ls, i) ==
    \E j \in 1..i :
        /\ IsDiffHeader(ls[j])
        /\ \A k \in (j + 1)..i : ~IsDiffHeader(ls[k])
        /\ IsSome(TargetPath(ls[j]))
        /\ IsTestPath(Unwrap(TargetPath(ls[j])))

\* the lines outside the parts of test files, in their order
RECURSIVE OtherLines(_, _)
OtherLines(ls, i) ==
    IF i > Len(ls) THEN <<>>
    ELSE (IF InTestPart(ls, i) THEN <<>> ELSE <<ls[i]>>) \o OtherLines(ls, i + 1)

\* C33: remove_patches_to_tests drops every line from a diff --git header
\* whose target path matches a test-file pattern up to the next header and
\* keeps every other line in its order: the text returned is these lines
\* joined; a diff all of whose lines belong to test files gives whitespace
\* only, one with no test file the lines it had.
C33_DropsTestParts ==
    IsSome(filtered) =>
        LET ls == Lines(Unwrap(model_patch))
        IN /\ Unwrap(filtered) = JoinLines(OtherLines(ls, 1))
           /\ (\A i \in 1..Len(ls) : InTestPart(ls, i)) => TrimIsEmpty(Unwrap(filtered))
           /\ (\A i \in 1..Len(ls) : ~InTestPart(ls, i)) => Unwrap(filtered) = JoinLines(ls)

\* C40: filtering the filtered text again returns it unchanged, and the
\* filtered text has no diff --git header whose target path matches a
\* test-file pattern.
C40_FilterIdempotent ==
    /\ IsSome(filtered_again) => filtered_again = filtered
    /\ IsSome(filtered) =>
           \A i \in 1..Len(Lines(Unwrap(filtered))) :
               LET line == Lines(Unwrap(filtered))[i]
               IN (IsDiffHeader(line) /\ IsSome(TargetPath(line)))
                      => ~IsTestPath(Unwrap(TargetPath(line)))

\* the header a start_recording call with these arguments builds
HeaderGiven(args) ==
    TrajectoryHeader(args.task, TxtProvider, TxtModel, MaxStepsGiven, NowGiven,
                     args.extra_args)

\* the calls that started a recording
Starts(calls) == {i \in 1..Len(calls) : calls[i].call = CallStart /\ calls[i].ok}

LatestStart(calls) == CHOOSE i \in Starts(calls) : \A j \in Starts(calls) : j <= i

\* a recording was started and neither started anew nor finalized since
ActiveAfter(calls) ==
    /\ Starts(calls) # {}
    /\ \A j \in (LatestStart(calls) + 1)..Len(calls) : calls[j].call = CallRecord

IsRecordCall(called) == called.call = CallRecord

\* the steps given to record_agent_step since the latest start, in call order
StepsSince(calls) ==
    LET records == SelectSeq(SubSeq(calls, LatestStart(calls) + 1, Len(calls)),
                             IsRecordCall)
    IN [i \in 1..Len(records) |-> records[i].args]

CallsBefore == SubSeq(recorder_calls, 1, Len(recorder_calls) - 1)

LatestCall == recorder_calls[Len(recorder_calls)]

\* the outcome the latest call finalized a recording with
OutcomeGiven ==
    IF LatestCall.call = CallFinalize THEN LatestCall.args
    ELSE [success |-> FALSE, final_result |-> None, total_tokens |-> None]

\* C34: the trajectory file that a finalization wrote deserializes to the
\* record held in memory at that moment, and that record is the header given
\* to start_recording, the steps in the order they were recorded, and the
\* success, final_result and total_tokens the finalization was given.
C34_FileRoundTrips ==
    IsSome(last_written) =>
        /\ IsSome(trajectory_file)
        /\ trajectory_from_str(Unwrap(trajectory_file)) = DeOk(Unwrap(last_written))
        /\ Starts(CallsBefore) # {}
        /\ Unwrap(last_written) =
               Trajectory(HeaderGiven(CallsBefore[LatestStart(CallsBefore)].args),
                          StepsSince(CallsBefore), OutcomeGiven.success,
                          OutcomeGiven.final_result, OutcomeGiven.total_tokens)

\* a finalize_recording has written two different steps, a header with extra
\* arguments and a token count without completion tokens
C34_Witness ==
    /\ IsSome(last_written)
    /\ LatestCall.call = CallFinalize
    /\ Len(Unwrap(last_written).steps) = 2
    /\ Unwrap(last_written).steps[1] # Unwrap(last_written).steps[2]
    /\ IsSome(Unwrap(last_written).header.extra_args)
    /\ IsSome(Unwrap(last_written).total_tokens)
    /\ ~IsSome(Unwrap(Unwrap(last_written).total_tokens).completion_tokens)

\* the steps, the success flag and the outcome fields of the file
FileRecord == trajectory_from_str(Unwrap(trajectory_file)).value

\* C38: over every sequence of calls, a file that a finalization writes holds
\* exactly the steps recorded since the most recent start_recording, in call
\* order; a step recorded while nothing is active changes neither the
\* recorder nor the file, a finalize_recording with nothing active writes
\* nothing, and a start_recording while a recording is active finalizes the
\* earlier one first, which, the file being writable, leaves it in the file
\* with success = false and starts the new one.
C38_FileHoldsStepsSinceStart ==
    [][recorder_calls' # recorder_calls =>
       LET file == trajectory_from_str(Unwrap(trajectory_file'))
           latest == recorder_calls'[Len(recorder_calls')]
       IN /\ IsSome(last_written') =>
                /\ IsSome(trajectory_file')
                /\ file.ok
                /\ file.value.steps = StepsSince(recorder_calls)
          /\ \A step \in StepSamples :
                (/\ latest.call = CallRecord
                 /\ ~ActiveAfter(recorder_calls)
                 /\ RecordAgentStep(step)) =>
                    /\ trajectory' = None
                    /\ trajectory_file' = trajectory_file
                    /\ ~ActiveAfter(recorder_calls')
          /\ \A args \in FinalizeSamples, io \in IoOutcomes,
                order \in ArgOrders(trajectory) :
                (/\ latest.call = CallFinalize
                 /\ ~ActiveAfter(recorder_calls)
                 /\ FinalizeRecording(args, io, order)) =>
                    /\ trajectory_file' = trajectory_file
                    /\ last_written' = None
          /\ \A args \in StartSamples, order \in ArgOrders(trajectory) :
                (/\ latest.call = CallStart
                 /\ latest.args = args
                 /\ ActiveAfter(recorder_calls)
                 /\ StartRecording(args, IoOk, order)) =>
                    /\ IsSome(last_written')
                    /\ file.value
                           = Trajectory(HeaderGiven(recorder_calls[LatestStart(recorder_calls)].args),
                                        StepsSince(recorder_calls), FALSE, None, None)
                    /\ trajectory' = Some(Trajectory(HeaderGiven(args), <<>>, FALSE, None, None))
      ]_vars

\* a recording with a step was started over: the file holds the earlier one,
\* and before it a step was recorded while nothing was active
C38_Witness ==
    /\ Len(recorder_calls) = 4
    /\ recorder_calls[1].call = CallRecord
    /\ recorder_calls[2].call = CallStart
    /\ recorder_calls[3].call = CallRecord
    /\ recorder_calls[4].call = CallStart
    /\ recorder_calls[1].args # recorder_calls[3].args
    /\ IsSome(last_written)
    /\ FileRecord.steps = <<recorder_calls[3].args>>
    /\ ~FileRecord.success
    /\ IsSome(trajectory)

\* the loop of execute_task ends in this step
TaskReturns == mode = "batch" /\ pc \notin {"created", "ready", "returned"} /\ pc' = "returned"

\* the loop ended this step with an error of the LLM client
LoopFailed == pc = "llm" /\ conversation_history' = conversation_history

\* C35: saving the patch never changes the outcome of a task: execute_task
\* returns what the loop ended with, an error exactly when the loop failed,
\* whatever became of the patch; and the patch file is written only when
\* patch_path and project_path are both set, and then with the text of a git
\* diff that succeeded.
C35_PatchNeverChangesOutcome ==
    [][TaskReturns =>
        /\ result'.kind = (IF LoopFailed THEN "Err" ELSE "Ok")
        /\ LoopFailed => execution' = execution
        /\ patch_file' # patch_file =>
              /\ IsSome(patch_path)
              /\ IsSome(project_path)
              /\ \E git_diff \in SavedDiffResults :
                    git_diff.ok /\ patch_file' = Some(git_diff.text)
        /\ ~(IsSome(patch_path) /\ IsSome(project_path)) => patch_file' = patch_file]_vars

\* a task with patch_path and project_path set has succeeded and returned Ok
\* although no patch file was written
C35_Witness ==
    /\ pc = "returned"
    /\ mode = "batch"
    /\ IsSome(patch_path)
    /\ IsSome(project_path)
    /\ patch_file = None
    /\ result.kind = "Ok"
    /\ execution.success

\* C36: a task_done call run by the tool executor always succeeds and its
\* result is the confirmation text, whether its arguments give a summary,
\* give none, or are the empty text.
C36_TaskDoneAlwaysSucceeds ==
    [][\A i \in 1..MaxCalls : \A outcome \in ToolOutcomes :
           (/\ ExecuteToolCallAt(i, outcome)
            /\ CallsOf(llm_response)[i].name = TaskDoneName
            /\ CallsOf(llm_response)[i].arguments \in {ArgsSummaryOk, ArgsEmptyObject, <<>>}) =>
               /\ step_tool_results'[1].success
               /\ IsSome(step_tool_results'[1].result)
               /\ StartsWith(Unwrap(step_tool_results'[1].result), TxtSignaled)
               /\ step_tool_results'[1].error = None]_vars

FinalEvents == {"TaskCompleted", "TaskFailed"}

\* the event at place i of a run stands where the loop issues it
InItsPlace(events, i) ==
    LET event == events[i]
        before == events[i - 1]
    IN CASE event.kind = "StepBegin" ->
                IF i = 1 THEN event.step = 1
                ELSE /\ before.kind \in {"LLMResponseReceived", "ToolCallResult"}
                     /\ event.step = before.step + 1
         [] event.kind = "LLMRequestSent" -> i > 1 /\ before = StepBegin(event.step)
         [] event.kind = "LLMResponseReceived" ->
                i > 1 /\ before = LLMRequestSent(event.step)
         [] event.kind = "ToolCallAttempt" ->
                /\ i > 1
                /\ before = (IF event.call = 1 THEN LLMResponseReceived(event.step)
                             ELSE ToolCallResult(event.step, event.call - 1))
         [] event.kind = "ToolCallResult" ->
                i > 1 /\ before = ToolCallAttempt(event.step, event.call)
         [] event.kind \in FinalEvents ->
                /\ i > 1
                /\ before.kind \in {"LLMRequestSent", "LLMResponseReceived", "ToolCallResult"}
                /\ i = Len(events)
         [] OTHER -> FALSE

InIssueOrder(events) == \A i \in 1..Len(events) : InItsPlace(events, i)

MembersGiven(task_args, key, type) ==
    IF IsSome(task_args) /\ Unwrap(task_args).t = "object"
    THEN {i \in 1..Len(Unwrap(task_args).v) :
             Unwrap(task_args).v[i][1] = key /\ Unwrap(task_args).v[i][2].t = type}
    ELSE {}

\* the value of the one such member
ValueGiven(task_args, key, type) ==
    Unwrap(task_args).v[CHOOSE i \in MembersGiven(task_args, key, type) : TRUE][2]

\* an Option<String> field after new_task: the string of the key, or as before
StringOrKept(task_args, key, before) ==
    IF MembersGiven(task_args, key, "string") # {}
    THEN Some(ValueGiven(task_args, key, "string").v)
    ELSE before

EqualsTrueIgnoringCase(s) ==
    Len(s) = 4 /\ \A i \in 1..4 : LowerChar(s[i]) = (<<"t","r","u","e">>)[i]

\* C39: new_task overwrites project_path, must_patch, base_commit and
\* patch_path only from keys that task_args holds with a usable type: a string
\* for the three paths, and for must_patch a boolean or a string, which
\* counts as true exactly when it is "true" in any case.  A key that is absent
\* or of another type, and absent task_args, leave the value of the earlier
\* task.
C39_NewTaskKeepsUnnamedFields ==
    [][pc' = "ready" =>
          \A task \in Tasks, task_args \in TaskArgs :
              \/ /\ project_path' = StringOrKept(task_args, KeyProjectPath, project_path)
                 /\ base_commit' = StringOrKept(task_args, KeyBaseCommit, base_commit)
                 /\ patch_path' = StringOrKept(task_args, KeyPatchPath, patch_path)
                 /\ must_patch' =
                        IF MembersGiven(task_args, KeyMustPatch, "bool") # {}
                        THEN ValueGiven(task_args, KeyMustPatch, "bool") = JBool(TRUE)
                        ELSE IF MembersGiven(task_args, KeyMustPatch, "string") # {}
                        THEN EqualsTrueIgnoringCase(
                                 ValueGiven(task_args, KeyMustPatch, "string").v)
                        ELSE must_patch
              \/ ~new_task(task, task_args)]_vars

\* a task that names must_patch alone, as false or as the string "no", was
\* set up after a task that named all four fields with must_patch true: the
\* three paths of the earlier task are still there
C39_Witness ==
    /\ pc = "ready"
    /\ IsSome(current_task)
    /\ project_path = Some(TxtPath)
    /\ base_commit = Some(TxtCommit)
    /\ patch_path = Some(TxtPatchFile)
    /\ ~must_patch

====
